---- MODULE Spec2Model ----
(***************************************************************************)
(* Model of the Sui transaction explainer's classification and translation *)
(* engine: enhancedService.ts (server translator) and                      *)
(* translationService.ts (client translator); of the API route, the RPC    *)
(* proxy and the useTransaction hook that serve a lookup; of withRetry     *)
(* (queries.ts); of the lookup history kept in localStorage                *)
(* (transactionService.ts); and of the home page's submit handler.         *)
(*                                                                         *)
(* JavaScript strings that the code inspects character by character        *)
(* (parseInt, toLowerCase().includes) are sequences of one-character       *)
(* strings.  Strings that the code only compares or copies are TLA+        *)
(* strings; the empty string "" stands for an absent (undefined) string    *)
(* field, which the code treats as falsy in the same way.  An optional     *)
(* object field is <<>> when absent and <<v>> when present.                *)
(***************************************************************************)
EXTENDS Integers, Sequences, FiniteSets, TLC

VARIABLES tx, enhanced, client, api, ui, fetcher, runs, retry, store, page

vars == <<tx, enhanced, client, api, ui, fetcher, runs, retry, store, page>>

----------------------------------------------------------------------------
(* Bounds of the model *)

MaxChanges == 2

MaxCmds == 2

MaxRuns == 3

MaxEvents == 3

----------------------------------------------------------------------------
(* Generic helpers *)

Range(s) == {s[i] : i \in 1..Len(s)}

SeqsUpTo(S, n) == UNION {[1..k -> S] : k \in 0..n}

Includes(s, sub) ==
    \E i \in 0..(Len(s) - Len(sub)) : SubSeq(s, i + 1, i + Len(sub)) = sub

UpperChars ==
    <<"A","B","C","D","E","F","G","H","I","J","K","L","M",
      "N","O","P","Q","R","S","T","U","V","W","X","Y","Z">>

LowerChars ==
    <<"a","b","c","d","e","f","g","h","i","j","k","l","m",
      "n","o","p","q","r","s","t","u","v","w","x","y","z">>

LowerChar(c) ==
    IF \E i \in 1..26 : UpperChars[i] = c
    THEN LowerChars[CHOOSE i \in 1..26 : UpperChars[i] = c]
    ELSE c

toLowerCase(s) == [i \in 1..Len(s) |-> LowerChar(s[i])]

DigitChars == <<"0","1","2","3","4","5","6","7","8","9">>

IsDigit(c) == \E i \in 1..10 : DigitChars[i] = c

DigitVal(c) == (CHOOSE i \in 1..10 : DigitChars[i] = c) - 1

IsSpace(c) == c = " "

RECURSIVE SkipSpaces(_)
SkipSpaces(s) ==
    IF Len(s) > 0 /\ IsSpace(Head(s)) THEN SkipSpaces(Tail(s)) ELSE s

RECURSIVE ReadDigits(_, _, _)
ReadDigits(s, acc, seen) ==
    IF Len(s) > 0 /\ IsDigit(Head(s))
    THEN ReadDigits(Tail(s), acc * 10 + DigitVal(Head(s)), TRUE)
    ELSE [nan |-> ~seen, val |-> acc]

(* JavaScript parseInt(string): leading blanks, an optional sign, then the  *)
(* longest run of decimal digits; NaN when there is no digit.               *)
parseInt(str) ==
    LET s == SkipSpaces(str)
        neg == Len(s) > 0 /\ Head(s) = "-"
        signed == Len(s) > 0 /\ Head(s) \in {"-", "+"}
        r == ReadDigits(IF signed THEN Tail(s) ELSE s, 0, FALSE)
    IN  [nan |-> r.nan, val |-> IF neg THEN 0 - r.val ELSE r.val]

(* `parseInt(x) || 0` *)
OrZero(p) == IF p.nan THEN 0 ELSE p.val

----------------------------------------------------------------------------
(* Values of the raw transaction *)

Sender == "0xA"

AddrB == "0xB"

AddrC == "0xC"

SUI_TYPE == "0x2::sui::SUI"

SUI_ALIAS == "SUI"

USDC_TYPE == "0xc::usdc::USDC"

NoCmd ==
    [TransferSui |-> <<>>, TransferObjects |-> <<>>, PaySui |-> <<>>,
     Pay |-> <<>>, Call |-> <<>>, MoveFunction |-> <<>>, recipients |-> <<>>,
     amounts |-> <<>>, recipient |-> "", objects |-> <<>>]

TransferSuiCmd(to, amt) ==
    [NoCmd EXCEPT !.TransferSui = <<[recipient |-> to, amount |-> amt]>>]

(* `PaySui?: { coins, recipients, amounts }` of SingleTransaction: the lists *)
(* are fields of the PaySui payload                                         *)
PaySuiCmd(rs, as) ==
    [NoCmd EXCEPT !.PaySui = <<[recipients |-> rs, amounts |-> as]>>]

(* A PaySui command that also carries the lists as fields of the command    *)
(* object itself, where the translators read them                           *)
FlatPaySuiCmd(rs, as) ==
    [NoCmd EXCEPT !.PaySui = <<[recipients |-> rs, amounts |-> as]>>,
                  !.recipients = <<rs>>, !.amounts = <<as>>]

TransferObjectsCmd(objs, to) ==
    [NoCmd EXCEPT !.TransferObjects = <<[objects |-> objs, recipient |-> to]>>,
                  !.recipient = to, !.objects = <<objs>>]

(* package is a string; module and function are character sequences *)
MoveCallCmd(pkg, mod, fn) ==
    [NoCmd EXCEPT !.MoveFunction = <<[package |-> pkg, module |-> mod, function |-> fn]>>]

(* A command with none of the keys the translators look for, e.g. SplitCoins *)
OtherCmd == NoCmd

Has(cmd, key) ==
    CASE key = "TransferSui" -> cmd.TransferSui # <<>>
      [] key = "TransferObjects" -> cmd.TransferObjects # <<>>
      [] key = "PaySui" -> cmd.PaySui # <<>>
      [] key = "Pay" -> cmd.Pay # <<>>
      [] key = "MoveFunction" -> cmd.MoveFunction # <<>>

BalanceChange(owner, coin, amt) ==
    [owner |-> [AddressOwner |-> owner, ObjectOwner |-> ""],
     coinType |-> coin, amount |-> amt]

ObjectChange(op, id, tag) == [type |-> op, objectId |-> id, objectType |-> tag]

Event(tag, mod) == [type |-> tag, packageId |-> "0x1", transactionModule |-> mod]

(* An event of a module, with or without a package id *)
ModuleEvent(packageId, mod) ==
    [type |-> <<"0","x","9",":",":","E">>, packageId |-> packageId,
     transactionModule |-> mod]

NoGas == <<>>

Gas(c, s, r) ==
    <<[computationCost |-> c, storageCost |-> s, storageRebate |-> r,
       nonRefundableStorageFee |-> <<"0">>]>>

RawTx(kind, inputs, cmds, bcs, ocs, evs, gas, status) ==
    [sender |-> Sender, kind |-> kind, inputs |-> inputs, transactions |-> cmds,
     balanceChanges |-> <<bcs>>, objectChanges |-> <<ocs>>, events |-> <<evs>>,
     gasUsed |-> gas, status |-> status]

(* `tx.balanceChanges || []`, `tx.objectChanges || []`, `tx.events || []`:  *)
(* an optional list of the response is <<>> when absent and <<list>> when   *)
(* present                                                                  *)
OrEmpty(opt) == IF opt = <<>> THEN <<>> ELSE opt[1]

(* `tx.balanceChanges?.length === 0`: false for an absent list *)
LengthIsZero(opt) == opt # <<>> /\ Len(opt[1]) = 0

(* `tx.effects?.status?.status || 'unknown'` *)
StatusOf(t) == IF t.status = "" THEN "unknown" ELSE t.status

----------------------------------------------------------------------------
(* enhancedService.ts: the three analyzers *)

IsNative(coinType) == coinType = SUI_TYPE \/ coinType = SUI_ALIAS

BalanceOwner(change) ==
    IF change.owner.AddressOwner # "" THEN change.owner.AddressOwner
    ELSE change.owner.ObjectOwner

RECURSIVE SumSeq(_)
SumSeq(s) == IF s = <<>> THEN 0 ELSE Head(s) + SumSeq(Tail(s))

(* The sum of `parseInt(change.amount) || 0` over the entries whose index is in S *)
SumAmounts(bcs, S) ==
    SumSeq([i \in 1..Len(bcs) |->
               IF i \in S THEN OrZero(parseInt(bcs[i].amount)) ELSE 0])

(* `uniqueCoinTypes: tokenChanges.size + 1` *)
UniqueCoinTypes(tokenChanges) == Cardinality(DOMAIN tokenChanges) + 1

analyzeBalanceChanges(t) ==
    LET bcs == OrEmpty(t.balanceChanges)
        idx == 1..Len(bcs)
        native == {i \in idx : IsNative(bcs[i].coinType)}
        tokens == {bcs[i].coinType : i \in idx \ native}
        tokenChanges ==
            [k \in tokens |-> SumAmounts(bcs, {i \in idx : bcs[i].coinType = k})]
    IN  [suiChange |-> SumAmounts(bcs, native),
         tokenChanges |-> tokenChanges,
         hasIncoming |-> \E i \in idx : OrZero(parseInt(bcs[i].amount)) > 0,
         hasOutgoing |-> \E i \in idx : OrZero(parseInt(bcs[i].amount)) < 0,
         uniqueCoinTypes |-> UniqueCoinTypes(tokenChanges),
         senderBalanceChange |->
             SumAmounts(bcs, {i \in idx : BalanceOwner(bcs[i]) = t.sender})]

M_nft == <<"n","f","t">>
M_collectible == <<"c","o","l","l","e","c","t","i","b","l","e">>
M_cap == <<"c","a","p",":",":">>
M_supply == <<"s","u","p","p","l","y">>
M_treasury == <<"t","r","e","a","s","u","r","y">>
M_burn == <<"b","u","r","n">>
M_swap == <<"s","w","a","p">>
M_exchange == <<"e","x","c","h","a","n","g","e">>
M_pool == <<"p","o","o","l">>
M_tick == <<"t","i","c","k">>
M_order == <<"o","r","d","e","r">>
M_mint == <<"m","i","n","t">>
M_new_coin == <<"n","e","w","_","c","o","i","n">>
M_coin_added == <<"c","o","i","n","_","a","d","d","e","d">>
M_coin_removed == <<"c","o","i","n","_","r","e","m","o","v","e","d">>

IncludesAny(s, markers) == \E m \in markers : Includes(s, m)

CountOps(ocs, op) == Cardinality({i \in 1..Len(ocs) : ocs[i].type = op})

analyzeObjectChanges(t) ==
    LET ocs == OrEmpty(t.objectChanges)
        mintLike ==
            \E i \in 1..Len(ocs) :
                /\ ocs[i].type = "created"
                /\ IncludesAny(toLowerCase(ocs[i].objectType),
                               {M_nft, M_collectible, M_cap, M_supply, M_treasury})
        burnLike ==
            \E i \in 1..Len(ocs) :
                /\ ocs[i].type = "deleted"
                /\ IncludesAny(toLowerCase(ocs[i].objectType),
                               {M_burn, M_treasury, M_cap})
    IN  [created |-> CountOps(ocs, "created"),
         deleted |-> CountOps(ocs, "deleted"),
         mutated |-> CountOps(ocs, "mutated"),
         transferred |-> CountOps(ocs, "transferred"),
         isNftCreation |-> mintLike,
         isTokenMint |-> mintLike,
         isTokenBurn |-> burnLike]

M_deepbook == <<"d","e","e","p","b","o","o","k">>

M_cetus == <<"c","e","t","u","s">>

M_turbo == <<"t","u","r","b","o">>

(* The `if (event.packageId)` block of the loop: the protocol after one     *)
(* more event ("": undefined)                                               *)
ProtocolAfter(event, protocol) ==
    LET module == toLowerCase(event.transactionModule)
    IN  IF event.packageId = "" THEN protocol
        ELSE IF Includes(module, M_deepbook) THEN "DeepBook"
        ELSE IF Includes(module, M_cetus) THEN "Cetus"
        ELSE IF Includes(module, M_turbo) THEN "Turbos"
        ELSE protocol

RECURSIVE ProtocolScan(_, _)
ProtocolScan(evs, protocol) ==
    IF evs = <<>> THEN protocol
    ELSE ProtocolScan(Tail(evs), ProtocolAfter(Head(evs), protocol))

analyzeEvents(t) ==
    LET evs == OrEmpty(t.events)
        Low(i) == toLowerCase(evs[i].type)
    IN  [eventTypes |-> [i \in 1..Len(evs) |-> evs[i].type],
         protocol |-> ProtocolScan(evs, ""),
         isSwapEvent |-> \E i \in 1..Len(evs) :
             IncludesAny(Low(i), {M_swap, M_exchange, M_pool, M_tick, M_order}),
         isMintEvent |-> \E i \in 1..Len(evs) :
             IncludesAny(Low(i), {M_mint, M_new_coin, M_coin_added}),
         isBurnEvent |-> \E i \in 1..Len(evs) :
             IncludesAny(Low(i), {M_burn, M_coin_removed})]

----------------------------------------------------------------------------
(* enhancedService.ts: the classifier *)

isSwapPattern(balance) ==
    IF balance.uniqueCoinTypes < 2 THEN FALSE
    ELSE IF ~balance.hasIncoming \/ ~balance.hasOutgoing THEN FALSE
    ELSE TRUE

isBuyPattern(balance) ==
    IF ~balance.hasOutgoing THEN FALSE
    ELSE IF ~balance.hasIncoming THEN FALSE
    ELSE balance.uniqueCoinTypes = 1

isSellPattern(balance) ==
    IF ~balance.hasIncoming THEN FALSE
    ELSE IF ~balance.hasOutgoing THEN FALSE
    ELSE balance.uniqueCoinTypes = 1

(* The command loop of isDirectSuiTransfer: the first command that is a     *)
(* TransferSui or a PaySui returns; any other command is passed over.       *)
RECURSIVE DirectScan(_)
DirectScan(cmds) ==
    IF cmds = <<>> THEN FALSE
    ELSE LET cmd == Head(cmds) IN
         IF Has(cmd, "TransferSui") /\ ~Has(cmd, "TransferObjects") THEN TRUE
         ELSE IF Has(cmd, "PaySui") /\ ~Has(cmd, "Pay")
              THEN cmd.recipients # <<>> /\ Len(cmd.recipients[1]) = 1
              ELSE DirectScan(Tail(cmds))

isDirectSuiTransfer(t) ==
    IF t.kind = "Single" THEN DirectScan(t.transactions) ELSE FALSE

(* detectTransactionType with the burn rule tried before the mint rule *)
detectTransactionTypeBurnFirst(t) ==
    LET balance == analyzeBalanceChanges(t)
        objects == analyzeObjectChanges(t)
        events == analyzeEvents(t)
    IN  IF objects.isTokenBurn
           /\ (~balance.hasOutgoing \/ LengthIsZero(t.balanceChanges))
        THEN "burn"
        ELSE IF (objects.isTokenMint \/ objects.isNftCreation) /\ ~balance.hasIncoming
        THEN "mint"
        ELSE IF events.isSwapEvent \/ isSwapPattern(balance) THEN "swap"
        ELSE IF isBuyPattern(balance) THEN "buy"
        ELSE IF isSellPattern(balance) THEN "sell"
        ELSE IF isDirectSuiTransfer(t) THEN "transfer"
        ELSE "call"

detectTransactionType(t) ==
    LET balance == analyzeBalanceChanges(t)
        objects == analyzeObjectChanges(t)
        events == analyzeEvents(t)
    IN  IF (objects.isTokenMint \/ objects.isNftCreation) /\ ~balance.hasIncoming
        THEN "mint"
        ELSE IF objects.isTokenBurn
                /\ (~balance.hasOutgoing \/ LengthIsZero(t.balanceChanges))
        THEN "burn"
        ELSE IF events.isSwapEvent \/ isSwapPattern(balance) THEN "swap"
        ELSE IF isBuyPattern(balance) THEN "buy"
        ELSE IF isSellPattern(balance) THEN "sell"
        ELSE IF isDirectSuiTransfer(t) THEN "transfer"
        ELSE "call"

----------------------------------------------------------------------------
(* enhancedService.ts: recipients, Move calls, narrative, flow graph *)

HasAddress(recipients, a) == \E i \in 1..Len(recipients) : recipients[i].address = a

(* A push without the search for an existing entry *)
PushRecipientUnchecked(recipients, a) == Append(recipients, [address |-> a])

(* `if (!existing) recipients.push(...)` *)
PushRecipient(recipients, a) ==
    IF HasAddress(recipients, a) THEN recipients
    ELSE Append(recipients, [address |-> a])

(* The balance-change loop without the comparison with the sender *)
RECURSIVE BalanceRecipientsWithSender(_, _, _)
BalanceRecipientsWithSender(bcs, sender, acc) ==
    IF bcs = <<>> THEN acc
    ELSE LET a == Head(bcs).owner.AddressOwner IN
         BalanceRecipientsWithSender(Tail(bcs), sender,
             IF a # "" THEN PushRecipient(acc, a) ELSE acc)

RECURSIVE BalanceRecipients(_, _, _)
BalanceRecipients(bcs, sender, acc) ==
    IF bcs = <<>> THEN acc
    ELSE LET a == Head(bcs).owner.AddressOwner IN
         BalanceRecipients(Tail(bcs), sender,
             IF a # "" /\ a # sender THEN PushRecipient(acc, a) ELSE acc)

RECURSIVE TransferSuiRecipients(_, _)
TransferSuiRecipients(cmds, acc) ==
    IF cmds = <<>> THEN acc
    ELSE LET cmd == Head(cmds) IN
         TransferSuiRecipients(Tail(cmds),
             IF cmd.TransferSui # <<>> /\ cmd.TransferSui[1].recipient # ""
             THEN PushRecipient(acc, cmd.TransferSui[1].recipient)
             ELSE acc)

getRecipients(t) ==
    LET fromBalances == BalanceRecipients(OrEmpty(t.balanceChanges), t.sender, <<>>)
    IN  IF t.kind = "Single"
        THEN TransferSuiRecipients(t.transactions, fromBalances)
        ELSE fromBalances

N_transfer == <<"t","r","a","n","s","f","e","r">>
N_transfer_sui == <<"t","r","a","n","s","f","e","r","_","s","u","i">>
N_pay == <<"p","a","y">>
N_pay_sui == <<"p","a","y","_","s","u","i">>
N_mint == <<"m","i","n","t">>
N_burn == <<"b","u","r","n">>
N_swap == <<"s","w","a","p">>
N_add_liquidity == <<"a","d","d","_","l","i","q","u","i","d","i","t","y">>
N_remove_liquidity == <<"r","e","m","o","v","e","_","l","i","q","u","i","d","i","t","y">>
N_create == <<"c","r","e","a","t","e">>
N_update == <<"u","p","d","a","t","e">>
N_delete == <<"d","e","l","e","t","e">>
N_claim == <<"c","l","a","i","m">>
N_deposit == <<"d","e","p","o","s","i","t">>
N_withdraw == <<"w","i","t","h","d","r","a","w">>
N_cancel_order == <<"c","a","n","c","e","l","_","o","r","d","e","r">>
N_place_order == <<"p","l","a","c","e","_","o","r","d","e","r">>
N_unknown == <<"u","n","k","n","o","w","n">>
N_nft_mint == <<"n","f","t",":",":","m","i","n","t">>
N_destroy == <<"d","e","s","t","r","o","y">>
N_swapExact == <<"s","w","a","p","E","x","a","c","t">>
N_dex == <<"d","e","x">>
N_cetus == <<"c","e","t","u","s">>
N_turbo == <<"t","u","r","b","o">>
N_deepbook == <<"d","e","e","p","b","o","o","k">>

(* The keys of MOVE_FUNCTION_DESCRIPTIONS in enhancedService.ts *)
KnownFunctions ==
    {N_transfer, N_transfer_sui, N_pay, N_pay_sui, N_mint, N_burn, N_swap,
     N_add_liquidity, N_remove_liquidity, N_create, N_update, N_delete,
     N_claim, N_deposit, N_withdraw}

(* The keys of MOVE_FUNCTION_DESCRIPTIONS in translationService.ts *)
ClientKnownFunctions == KnownFunctions \cup {N_cancel_order, N_place_order}

(* `(x as string) || 'unknown'` *)
OrUnknown(str) == IF str = <<>> THEN N_unknown ELSE str

MoveCommands(t) == SelectSeq(t.transactions, LAMBDA c : Has(c, "MoveFunction"))

parseMoveCalls(t) ==
    IF t.kind = "ProgrammableTransaction"
    THEN LET calls == MoveCommands(t)
         IN  [i \in 1..Len(calls) |->
                LET mc == calls[i].MoveFunction[1]
                    fn == OrUnknown(mc.function)
                    mod == OrUnknown(mc.module)
                IN  [package |-> IF mc.package = "" THEN "unknown" ELSE mc.package,
                     module |-> mod,
                     function |-> fn,
                     description |->
                        IF fn \in KnownFunctions
                        THEN [source |-> "dictionary", text |-> fn]
                        ELSE [source |-> "Calls", text |-> mod \o <<".">> \o fn],
                     plainEnglish |->
                        IF fn \in KnownFunctions
                        THEN [source |-> "dictionary", text |-> fn]
                        ELSE [source |-> "Executes", text |-> mod \o <<".">> \o fn]]]
    ELSE <<>>

(* A narrative is the list of its phrases, the amount it quotes (if any) and *)
(* the gas total it quotes (if any).                                         *)
FailedNarrative == [parts |-> <<"This transaction failed.">>, amount |-> <<>>, gas |-> <<>>]

DefaultNarrative(t) ==
    [parts |-> <<t.sender, "performed a transaction on the Sui blockchain.">>,
     amount |-> <<>>, gas |-> <<>>]

(* parseInt(computationCost) + parseInt(storageCost) - parseInt(storageRebate), *)
(* NaN when a component does not parse                                          *)
TotalGas(g) ==
    LET c == parseInt(g.computationCost)
        s == parseInt(g.storageCost)
        r == parseInt(g.storageRebate)
    IN  [nan |-> c.nan \/ s.nan \/ r.nan, val |-> c.val + s.val - r.val]

(* `parts.join(' ') + '.'` after the optional gas phrase *)
Narrative(t, parts, amount) ==
    [parts |-> parts, amount |-> amount,
     gas |-> IF t.gasUsed # <<>> THEN <<TotalGas(t.gasUsed[1])>> ELSE <<>>]

Addresses(recipients) == [i \in 1..Len(recipients) |-> recipients[i].address]

(* The amount of `transactions[0].TransferSui` when it is a positive number *)
FirstTransferAmount(t) ==
    IF Len(t.transactions) > 0 /\ t.transactions[1].TransferSui # <<>>
       /\ t.transactions[1].TransferSui[1].amount > 0
    THEN <<t.transactions[1].TransferSui[1].amount>>
    ELSE <<>>

generatePlainEnglish(t) ==
    LET recipients == getRecipients(t)
        type == detectTransactionType(t)
        to == IF Len(recipients) > 0 THEN <<"to">> \o Addresses(recipients) ELSE <<>>
        from == IF Len(recipients) > 0 THEN <<"from">> \o Addresses(recipients) ELSE <<>>
        moveCalls == parseMoveCalls(t)
    IN  IF StatusOf(t) # "success" THEN FailedNarrative
        ELSE CASE type = "transfer" ->
                    Narrative(t, <<t.sender, "sent SUI">> \o to, FirstTransferAmount(t))
               [] type = "buy" -> Narrative(t, <<t.sender, "purchased assets">> \o from, <<>>)
               [] type = "sell" -> Narrative(t, <<t.sender, "sold assets">> \o to, <<>>)
               [] type = "swap" -> Narrative(t, <<t.sender, "swapped assets">>, <<>>)
               [] type = "mint" -> Narrative(t, <<t.sender, "minted new tokens or NFTs">>, <<>>)
               [] type = "burn" -> Narrative(t, <<t.sender, "burned tokens or NFTs">>, <<>>)
               [] type = "call" ->
                    Narrative(t,
                        IF Len(moveCalls) = 0
                        THEN <<t.sender, "executed smart contract calls">>
                        ELSE IF moveCalls[1].function \in KnownFunctions
                        THEN <<t.sender, "did the known action">>
                        ELSE <<t.sender, "executed module.function">>,
                        <<>>)
               [] OTHER -> DefaultNarrative(t)

IndexText == <<"0", "1", "2", "3", "4", "5", "6", "7", "8", "9">>

(* The text of the 0-based index of the i-th element *)
Idx(i) == IndexText[i]

Node(id, type, address) == [id |-> id, type |-> type, address |-> address]

generateFlowNodes(t) ==
    LET recipients == getRecipients(t)
        moveCalls == parseMoveCalls(t)
        processing ==
            IF Len(moveCalls) > 0 \/ t.kind = "Single"
            THEN <<Node(<<"processing">>, "processing", "")>>
            ELSE <<>>
        delivery ==
            IF Len(recipients) > 0
            THEN <<Node(<<"completion">>, "completion", "")>>
                 \o [i \in 1..Len(recipients) |->
                        Node(<<"recipient", Idx(i)>>, "recipient", recipients[i].address)]
            ELSE <<>>
    IN  <<Node(<<"sender">>, "sender", t.sender),
          Node(<<"initiation">>, "initiation", ""),
          Node(<<"verification">>, "verification", "")>>
        \o processing
        \o <<Node(<<"confirmation">>, "confirmation", "")>>
        \o delivery

Edge(id, source, target, label) ==
    [id |-> id, source |-> source, target |-> target, label |-> label]

TransferLabel(type) ==
    CASE type = "transfer" -> "SUI tokens"
      [] type = "swap" -> "Swapped assets"
      [] type = "buy" -> "Purchased assets"
      [] type = "sell" -> "Payment received"
      [] type = "mint" -> "Minted tokens"
      [] type = "burn" -> "Burn confirmation"
      [] type = "call" -> "Contract result"
      [] OTHER -> "Assets"

generateFlowEdges(t, type) ==
    LET recipients == getRecipients(t)
        delivery ==
            IF Len(recipients) > 0
            THEN <<Edge(<<"confirmation-completion">>, <<"confirmation">>,
                        <<"completion">>, "Deliver result")>>
                 \o [i \in 1..Len(recipients) |->
                        Edge(<<"completion-recipient", Idx(i)>>, <<"completion">>,
                             <<"recipient", Idx(i)>>, TransferLabel(type))]
            ELSE <<>>
    IN  <<Edge(<<"sender-initiation">>, <<"sender">>, <<"initiation">>,
               "Initiates transaction"),
          Edge(<<"initiation-verification">>, <<"initiation">>, <<"verification">>,
               "Submit for validation"),
          Edge(<<"verification-processing">>, <<"verification">>, <<"processing">>,
               "Execute operations"),
          Edge(<<"processing-confirmation">>, <<"processing">>, <<"confirmation">>,
               IF StatusOf(t) = "success" THEN "Success" ELSE "Failed")>>
        \o delivery

ZeroGas ==
    [computationCost |-> <<"0">>, storageCost |-> <<"0">>,
     storageRebate |-> <<"0">>, nonRefundableStorageFee |-> <<"0">>]

(* GasOrZero with a default of one unit of computation *)
GasOrUnit(t) ==
    IF t.gasUsed # <<>> THEN t.gasUsed[1] ELSE [ZeroGas EXCEPT !.computationCost = <<"1">>]

(* `tx.effects?.gasUsed || { computationCost: '0', ... }` *)
GasOrZero(t) == IF t.gasUsed # <<>> THEN t.gasUsed[1] ELSE ZeroGas

EnhancedGasInfo(t) ==
    LET gasUsed == GasOrZero(t)
        computationCost == OrZero(parseInt(gasUsed.computationCost))
        storageCost == OrZero(parseInt(gasUsed.storageCost))
        storageRebate == OrZero(parseInt(gasUsed.storageRebate))
        gasFee == computationCost + storageCost
        netGasFee == gasFee - storageRebate
    IN  [gasUsed |-> computationCost, gasFee |-> gasFee,
         storageRebate |-> storageRebate, netGasFee |-> netGasFee]

translateTransaction(t) ==
    LET type == detectTransactionType(t)
    IN  [plainEnglish |-> generatePlainEnglish(t),
         sender |-> t.sender,
         recipients |-> Addresses(getRecipients(t)),
         gasInfo |-> EnhancedGasInfo(t),
         moveCalls |-> parseMoveCalls(t),
         status |-> StatusOf(t),
         transactionType |-> type,
         flowNodes |-> generateFlowNodes(t),
         flowEdges |-> generateFlowEdges(t, type)]

----------------------------------------------------------------------------
(* translationService.ts: the client translator *)

clientDetectTransactionType(t) ==
    IF t.kind = "ProgrammableTransaction" THEN "programmable"
    ELSE IF t.kind = "Single" /\ Len(t.transactions) > 0
    THEN LET firstTx == t.transactions[1] IN
         IF firstTx.TransferSui # <<>> THEN "transfer_sui"
         ELSE IF firstTx.TransferObjects # <<>> THEN "transfer_objects"
         ELSE IF firstTx.Pay # <<>> THEN "pay"
         ELSE IF firstTx.PaySui # <<>> THEN "pay_sui"
         ELSE IF firstTx.Call # <<>> THEN "call"
         ELSE "unknown"
    ELSE "unknown"

(* One push per object of a TransferObjects command, each guarded by the    *)
(* search for the recipient's address                                       *)
RECURSIVE PushPerObject(_, _, _)
PushPerObject(acc, objs, a) ==
    IF objs = <<>> THEN acc
    ELSE PushPerObject(PushRecipient(acc, a), Tail(objs), a)

RECURSIVE DirectRecipients(_, _)
DirectRecipients(cmds, acc) ==
    IF cmds = <<>> THEN acc
    ELSE LET cmd == Head(cmds)
             afterSui ==
                IF cmd.TransferSui # <<>> /\ cmd.TransferSui[1].recipient # ""
                THEN PushRecipient(acc, cmd.TransferSui[1].recipient)
                ELSE acc
             afterObjects ==
                IF cmd.TransferObjects # <<>> /\ cmd.TransferObjects[1].recipient # ""
                THEN PushPerObject(afterSui, cmd.TransferObjects[1].objects,
                                   cmd.TransferObjects[1].recipient)
                ELSE afterSui
         IN  DirectRecipients(Tail(cmds), afterObjects)

clientGetRecipients(t) ==
    LET fromBalances == BalanceRecipients(OrEmpty(t.balanceChanges), t.sender, <<>>)
    IN  IF t.kind = "Single"
        THEN DirectRecipients(t.transactions, fromBalances)
        ELSE fromBalances

RECURSIVE AddAddresses(_, _)
AddAddresses(addresses, recipients) ==
    IF recipients = <<>> THEN addresses
    ELSE AddAddresses(
            IF \E i \in 1..Len(addresses) : addresses[i].address = Head(recipients).address
            THEN addresses
            ELSE Append(addresses, [address |-> Head(recipients).address, type |-> "recipient"]),
            Tail(recipients))

extractAddresses(t) ==
    AddAddresses(<<[address |-> t.sender, type |-> "sender"]>>, clientGetRecipients(t))

Step(id, type, title, from, to, asset) ==
    [id |-> id, type |-> type, title |-> title, from |-> from, to |-> to, asset |-> asset]

FailedStep == Step(<<"failed">>, "action", "Transaction Failed", "", "", "")

SendSuiSteps(t) ==
    LET cmd == t.transactions[1].TransferSui IN
    IF cmd # <<>> /\ cmd[1].amount # 0 /\ cmd[1].recipient # ""
    THEN <<Step(<<"send-sui">>, "transfer", "Sent", t.sender, cmd[1].recipient, "SUI")>>
    ELSE <<>>

(* `amounts[i]` of a pay command, 0 (falsy) when the list is shorter *)
AmountAt(amounts, i) == IF i <= Len(amounts) THEN amounts[i] ELSE 0

PayStepsOf(t, cmd) ==
    IF cmd.recipients # <<>> /\ cmd.amounts # <<>>
    THEN LET rs == cmd.recipients[1]
             am == cmd.amounts[1]
             kept == SelectSeq([i \in 1..Len(rs) |-> i],
                               LAMBDA i : AmountAt(am, i) # 0 /\ rs[i] # "")
         IN  [k \in 1..Len(kept) |->
                Step(<<"pay", Idx(kept[k])>>, "transfer", "Sent", t.sender, rs[kept[k]], "SUI")]
    ELSE <<>>

TransferStepsOf(t, cmd) ==
    IF cmd.recipient # "" /\ cmd.objects # <<>>
    THEN LET objs == cmd.objects[1] IN
         [i \in 1..Len(objs) |->
            Step(<<"transfer", Idx(i)>>, "transfer", "Transferred Object",
                 t.sender, cmd.recipient, objs[i])]
    ELSE <<>>

RECURSIVE Flatten(_)
Flatten(ss) == IF ss = <<>> THEN <<>> ELSE Head(ss) \o Flatten(Tail(ss))

PaySteps(t) ==
    Flatten([c \in 1..Len(t.transactions) |-> PayStepsOf(t, t.transactions[c])])

TransferObjectSteps(t) ==
    Flatten([c \in 1..Len(t.transactions) |-> TransferStepsOf(t, t.transactions[c])])

InputSteps(t) ==
    LET ins == t.inputs
        kept == SelectSeq([i \in 1..Len(ins) |-> i],
                    LAMBDA i : /\ ins[i].coinType # ""
                               /\ (ins[i].objectId # "" \/ ins[i].value # 0))
    IN  [k \in 1..Len(kept) |->
            Step(<<"input", Idx(kept[k])>>, "input", "Provided Input", t.sender, "",
                 IF ins[kept[k]].objectId # "" THEN ins[kept[k]].objectId
                 ELSE ins[kept[k]].coinType)]

CallSteps(t) ==
    LET calls == MoveCommands(t) IN
    [i \in 1..Len(calls) |->
        Step(<<"call", Idx(i)>>, "action", "Called", t.sender, "", "")]

OutputStepOf(t, change) ==
    LET amount == parseInt(change.amount)
        owner == change.owner.AddressOwner
    IN  IF amount.nan \/ amount.val = 0 THEN <<>>
        ELSE IF owner = t.sender
        THEN <<Step(<<"output", change.coinType>>, "output", "Sent",
                    t.sender, "", change.coinType)>>
        ELSE IF owner # ""
        THEN <<Step(<<"output", change.coinType, owner>>, "output", "Received",
                    "", owner, change.coinType)>>
        ELSE <<>>

OutputSteps(t) ==
    LET bcs == OrEmpty(t.balanceChanges)
    IN  Flatten([i \in 1..Len(bcs) |-> OutputStepOf(t, bcs[i])])

GasStep(t) ==
    IF t.gasUsed # <<>>
    THEN <<Step(<<"gas">>, "action", "Paid Gas Fee", t.sender, "", "SUI")>>
    ELSE <<>>

(* generateTransactionSteps without the early return of the failed branch *)
generateTransactionStepsNoReturn(t) ==
    LET type == clientDetectTransactionType(t)
        body == CASE type = "transfer_sui" -> SendSuiSteps(t)
                  [] type \in {"pay", "pay_sui"} -> PaySteps(t)
                  [] type = "transfer_objects" -> TransferObjectSteps(t)
                  [] type = "programmable" ->
                        InputSteps(t) \o CallSteps(t) \o OutputSteps(t)
                  [] OTHER -> <<>>
    IN  (IF StatusOf(t) # "success" THEN <<FailedStep>> ELSE <<>>)
        \o body \o GasStep(t)

generateTransactionSteps(t) ==
    LET type == clientDetectTransactionType(t)
        body == CASE type = "transfer_sui" -> SendSuiSteps(t)
                  [] type \in {"pay", "pay_sui"} -> PaySteps(t)
                  [] type = "transfer_objects" -> TransferObjectSteps(t)
                  [] type = "programmable" ->
                        InputSteps(t) \o CallSteps(t) \o OutputSteps(t)
                  [] OTHER -> <<>>
    IN  IF StatusOf(t) # "success" THEN <<FailedStep>>
        ELSE body \o GasStep(t)

clientGeneratePlainEnglish(t) ==
    LET recipients == clientGetRecipients(t)
        type == clientDetectTransactionType(t)
        to == IF Len(recipients) > 0 THEN <<"to">> \o Addresses(recipients) ELSE <<>>
        calls == MoveCommands(t)
    IN  IF StatusOf(t) # "success" THEN FailedNarrative
        ELSE CASE type = "transfer_sui" ->
                    Narrative(t, <<t.sender, "sent SUI">> \o to, FirstTransferAmount(t))
               [] type \in {"pay", "pay_sui"} ->
                    Narrative(t, <<t.sender, "made a payment">>
                                 \o (IF Len(recipients) > 0 THEN <<"to recipients">> ELSE <<>>),
                              <<Len(recipients)>>)
               [] type = "transfer_objects" ->
                    Narrative(t, <<t.sender, "transferred">> \o to, <<Len(OrEmpty(t.objectChanges))>>)
               [] type = "programmable" ->
                    Narrative(t,
                        IF Len(calls) = 0
                        THEN <<t.sender, "executed smart contract calls">>
                        ELSE IF OrUnknown(calls[1].MoveFunction[1].function) \in ClientKnownFunctions
                        THEN <<t.sender, "did the known action">>
                        ELSE <<t.sender, "executed the module.function function">>,
                        IF Len(calls) > 1 THEN <<Len(calls) - 1>> ELSE <<>>)
               [] OTHER -> DefaultNarrative(t)

(* extractGasInfo with the rebate left out of the net fee *)
extractGasInfoNoRebate(t) ==
    LET gasUsed == GasOrZero(t)
        computationCost == OrZero(parseInt(gasUsed.computationCost))
        storageCost == OrZero(parseInt(gasUsed.storageCost))
        storageRebate == OrZero(parseInt(gasUsed.storageRebate))
        totalUsed == computationCost + storageCost
    IN  [gasUsed |-> totalUsed, gasFee |-> totalUsed,
         storageRebate |-> storageRebate, netGasFee |-> totalUsed]

extractGasInfo(t) ==
    LET gasUsed == GasOrZero(t)
        computationCost == OrZero(parseInt(gasUsed.computationCost))
        storageCost == OrZero(parseInt(gasUsed.storageCost))
        storageRebate == OrZero(parseInt(gasUsed.storageRebate))
        totalUsed == computationCost + storageCost
        netFee == totalUsed - storageRebate
    IN  [gasUsed |-> totalUsed, gasFee |-> totalUsed,
         storageRebate |-> storageRebate, netGasFee |-> netFee]

extractMoveCalls(t) ==
    IF t.kind = "ProgrammableTransaction"
    THEN LET calls == MoveCommands(t)
         IN  [i \in 1..Len(calls) |->
                LET func == calls[i].MoveFunction[1]
                    key == func.module \o <<"_">> \o func.function
                IN  [package |-> func.package,
                     module |-> func.module,
                     function |-> func.function,
                     description |->
                        IF key \in ClientKnownFunctions
                        THEN [source |-> "dictionary", text |-> key]
                        ELSE [source |-> "Custom Move function", text |-> <<>>],
                     plainEnglish |->
                        IF key \in ClientKnownFunctions
                        THEN [source |-> "dictionary", text |-> key]
                        ELSE [source |-> "This executes a custom function", text |-> <<>>]]]
    ELSE <<>>

clientGenerateFlowNodes(t) ==
    LET recipients == clientGetRecipients(t)
        moveCalls == extractMoveCalls(t)
    IN  <<Node(<<"sender">>, "sender", t.sender)>>
        \o [i \in 1..Len(recipients) |->
                Node(<<"recipient", Idx(i)>>, "recipient", recipients[i].address)]
        \o (IF Len(moveCalls) > 0 THEN <<Node(<<"contract">>, "contract", "")>> ELSE <<>>)

ClientTransferLabel(type) ==
    CASE type = "transfer_sui" -> "Send SUI"
      [] type = "transfer_objects" -> "Transfer Object"
      [] type \in {"pay", "pay_sui"} -> "Payment"
      [] OTHER -> "Transfer"

clientGenerateFlowEdges(t) ==
    LET recipients == clientGetRecipients(t)
        moveCalls == extractMoveCalls(t)
        type == clientDetectTransactionType(t)
    IN  (IF Len(moveCalls) > 0
         THEN <<Edge(<<"sender-contract">>, <<"sender">>, <<"contract">>, "Execute")>>
         ELSE <<>>)
        \o [i \in 1..Len(recipients) |->
                Edge(<<"sender-recipient", Idx(i)>>, <<"sender">>,
                     <<"recipient", Idx(i)>>, ClientTransferLabel(type))]
        \o (IF Len(moveCalls) > 0 /\ Len(recipients) > 0
            THEN [i \in 1..Len(recipients) |->
                    Edge(<<"contract-recipient", Idx(i)>>, <<"contract">>,
                         <<"recipient", Idx(i)>>, "Output")]
            ELSE <<>>)

(* The loop of analyzeFinancialTransaction over the Move calls: swap, mint   *)
(* and burn names end the loop; a DEX module changes the type and goes on.   *)
RECURSIVE FinancialScan(_, _)
FinancialScan(calls, txType) ==
    IF calls = <<>> THEN txType
    ELSE LET func == Head(calls).MoveFunction[1]
             funcName == func.function
             module == func.module
         IN  IF funcName = N_swap \/ funcName = N_swapExact \/ Includes(funcName, N_swap)
             THEN "swap"
             ELSE IF funcName = N_mint \/ funcName = N_create \/ funcName = N_nft_mint
             THEN "mint"
             ELSE IF funcName = N_burn \/ funcName = N_destroy THEN "burn"
             ELSE IF IncludesAny(module, {N_dex, N_cetus, N_turbo, N_deepbook})
                     /\ (IncludesAny(funcName, {N_swap, M_exchange})
                         \/ IncludesAny(funcName, {N_add_liquidity, N_remove_liquidity}))
             THEN FinancialScan(Tail(calls), "swap")
             ELSE FinancialScan(Tail(calls), txType)

analyzeFinancialTransaction(t) ==
    IF StatusOf(t) # "success" THEN [type |-> "unknown"]
    ELSE IF t.kind = "ProgrammableTransaction"
         THEN [type |-> FinancialScan(MoveCommands(t), "transfer")]
         ELSE [type |-> "transfer"]

clientTranslateTransaction(t) ==
    LET financialSummary == analyzeFinancialTransaction(t)
        addresses == extractAddresses(t)
        recipients == SelectSeq(addresses, LAMBDA a : a.type = "recipient")
    IN  [plainEnglish |-> clientGeneratePlainEnglish(t),
         sender |-> t.sender,
         recipients |-> Addresses(recipients),
         gasInfo |-> extractGasInfo(t),
         moveCalls |-> extractMoveCalls(t),
         status |-> IF t.status = "" THEN "success" ELSE t.status,
         transactionType |-> financialSummary.type,
         flowNodes |-> clientGenerateFlowNodes(t),
         flowEdges |-> clientGenerateFlowEdges(t),
         steps |-> generateTransactionSteps(t)]

----------------------------------------------------------------------------
(* The raw transactions the translators are run on *)

A_out == <<"-","5">>

A_in == <<"5">>

T_nft == <<"0","x","2",":",":","N","F","T">>

T_burn == <<"0","x","2",":",":","B","u","r","n","e","d">>

T_coin == <<"0","x","2",":",":","C","o","i","n">>

E_swap == <<"0","x","9",":",":","S","w","a","p","E","v","e","n","t">>

E_other == <<"0","x","9",":",":","D","e","p","o","s","i","t">>

P_pool == <<"p","o","o","l">>

P_vault == <<"v","a","u","l","t">>

P_deepbook == <<"d","e","e","p","b","o","o","k","_","v","2">>

P_cetus == <<"C","e","t","u","s">>

P_turbo == <<"t","u","r","b","o","s">>

N_custom == <<"r","u","n">>

N_amm == <<"a","m","m">>

ObjectLists ==
    {<<>>,
     <<ObjectChange("created", "0x53", T_coin)>>,
     <<ObjectChange("created", "0x51", T_nft)>>,
     <<ObjectChange("deleted", "0x52", T_burn)>>,
     <<ObjectChange("created", "0x51", T_nft), ObjectChange("deleted", "0x52", T_burn)>>}

EventLists == {<<>>, <<Event(E_swap, P_pool)>>, <<Event(E_other, P_vault)>>}

(* Classification inputs: the sender's balance changes in the native coin    *)
(* and in one other coin, every object and event list, and Single or         *)
(* programmable command lists of transfers and payments.                     *)
ClassifyChanges == {BalanceChange(Sender, c, a) : c \in {SUI_TYPE, USDC_TYPE}, a \in {A_out, A_in}}

ClassifyCmds ==
    {TransferSuiCmd(AddrB, 5), FlatPaySuiCmd(<<AddrB, AddrC>>, <<5, 5>>), OtherCmd}

(* A command carrying both a TransferSui and a TransferObjects key *)
BothTransfersCmd ==
    [NoCmd EXCEPT !.TransferSui = <<[recipient |-> AddrB, amount |-> 5]>>,
                  !.TransferObjects = <<[objects |-> <<"0x61">>, recipient |-> AddrB]>>]

ClassifyShapes ==
    ({"Single"} \X SeqsUpTo(ClassifyCmds, MaxCmds))
    \cup ({"Single"} \X {<<PaySuiCmd(<<AddrB>>, <<5>>)>>,
                         <<PaySuiCmd(<<AddrB, AddrC>>, <<5, 5>>)>>,
                         <<FlatPaySuiCmd(<<AddrB>>, <<5>>)>>,
                         <<OtherCmd, FlatPaySuiCmd(<<AddrB>>, <<5>>)>>,
                         <<BothTransfersCmd>>,
                         <<BothTransfersCmd, FlatPaySuiCmd(<<AddrB>>, <<5>>)>>})
    \cup ({"ProgrammableTransaction"} \X {<<>>, <<TransferSuiCmd(AddrB, 5)>>})

ClassifyInputs ==
    {RawTx(kc[1], <<>>, kc[2], bcs, ocs, evs, NoGas, "success") :
        kc \in ClassifyShapes,
        bcs \in SeqsUpTo(ClassifyChanges, MaxChanges),
        ocs \in ObjectLists,
        evs \in EventLists}

(* Translation inputs: balance changes owned by the sender and by two other *)
(* addresses, Single lists of transfer and pay commands, programmable       *)
(* lists of Move calls with or without inputs, a Batch, every status, with  *)
(* and without a gas record.                                                *)
TranslateChanges ==
    {BalanceChange(Sender, SUI_TYPE, A_out), BalanceChange(AddrB, SUI_TYPE, A_in),
     BalanceChange(AddrB, USDC_TYPE, A_in), BalanceChange(AddrC, SUI_TYPE, A_in)}

SingleCmds ==
    {TransferSuiCmd(AddrB, 5), TransferSuiCmd(Sender, 5),
     FlatPaySuiCmd(<<AddrB, AddrC>>, <<5, 5>>),
     TransferObjectsCmd(<<"0x61", "0x62">>, AddrC)}

MoveCmds == {MoveCallCmd("0x9", N_amm, N_swap), MoveCallCmd("0x9", N_amm, N_custom)}

TxInput(objectId, coinType, value) ==
    [objectId |-> objectId, coinType |-> coinType, value |-> value]

InputLists == {<<>>, <<TxInput("0x71", USDC_TYPE, 0), TxInput("", SUI_TYPE, 5)>>}

TranslateShapes ==
    ({"Single"} \X {<<>>} \X SeqsUpTo(SingleCmds, MaxCmds))
    \cup ({"ProgrammableTransaction"} \X InputLists \X SeqsUpTo(MoveCmds, MaxCmds))
    \cup ({"Batch"} \X {<<>>} \X {<<>>})

Statuses == {"success", "failure", ""}

TranslateInputs ==
    {RawTx(sh[1], sh[2], sh[3], bcs, <<>>, <<>>, gas, st) :
        sh \in TranslateShapes,
        bcs \in SeqsUpTo(TranslateChanges, MaxChanges),
        gas \in {NoGas, Gas(<<"7">>, <<"3">>, <<"2">>)},
        st \in Statuses}

(* Gas inputs: every component a decimal string, the empty string or text   *)
(* without digits; or no gas record at all.                                 *)
GasStrings == {<<"0">>, <<"7">>, <<"1","2">>, <<>>, <<"a","b","c">>}

GasRecords == {NoGas} \cup {Gas(c, st, r) : c \in GasStrings, st \in GasStrings, r \in GasStrings}

GasInputs ==
    {RawTx("Single", <<>>, <<TransferSuiCmd(AddrB, 5)>>, <<>>, <<>>, <<>>, gas, st) :
        gas \in GasRecords, st \in {"success", "failure"}}

----------------------------------------------------------------------------
(* validation (unnamed/part_005) and digestValidator.ts: digests are        *)
(* sequences of characters                                                  *)

HexLen == 64

Base58Min == 32

Base58Max == 44

Repeat(c, n) == [i \in 1..n |-> c]

RECURSIVE DropTrailingSpaces(_)
DropTrailingSpaces(s) ==
    IF Len(s) > 0 /\ IsSpace(s[Len(s)])
    THEN DropTrailingSpaces(SubSeq(s, 1, Len(s) - 1))
    ELSE s

(* String.prototype.trim *)
trim(s) == DropTrailingSpaces(SkipSpaces(s))

HexChars == Range(DigitChars) \cup {"a","b","c","d","e","f","A","B","C","D","E","F"}

(* [1-9A-HJ-NP-Za-km-z] *)
Base58Chars ==
    (Range(DigitChars) \ {"0"}) \cup (Range(UpperChars) \ {"I", "O"})
        \cup (Range(LowerChars) \ {"l"})

(* /^[0-9a-fA-F]{64}$/ *)
hexRegex(s) == Len(s) = HexLen /\ \A i \in 1..Len(s) : s[i] \in HexChars

(* /^[1-9A-HJ-NP-Za-km-z]{32,44}$/ *)
base58Regex(s) ==
    /\ Len(s) >= Base58Min
    /\ Len(s) <= Base58Max
    /\ \A i \in 1..Len(s) : s[i] \in Base58Chars

(* cleaned.startsWith('0x') || cleaned.startsWith('0X') *)
StartsWith0x(s) == Len(s) >= 2 /\ s[1] = "0" /\ s[2] \in {"x", "X"}

isValidTransactionDigest(digest) ==
    LET cleaned == trim(digest)
    IN  IF StartsWith0x(cleaned) THEN hexRegex(SubSeq(cleaned, 3, Len(cleaned)))
        ELSE IF base58Regex(cleaned) THEN TRUE
        ELSE hexRegex(cleaned)

normalizeDigest(digest) ==
    LET cleaned == trim(digest)
    IN  IF isValidTransactionDigest(cleaned)
        THEN IF ~StartsWith0x(cleaned) /\ base58Regex(cleaned) THEN cleaned
             ELSE IF StartsWith0x(cleaned) THEN cleaned
             ELSE <<"0", "x">> \o cleaned
        ELSE cleaned

(* `!digest || digest.trim() === ''` *)
IsBlank(digest) == digest = <<>> \/ trim(digest) = <<>>

----------------------------------------------------------------------------
(* errors.ts, transactionService.ts: thrown values.  A thrown value that is *)
(* no TransactionError has no code (code "" and statusCode 0).              *)

Thrown(name, code, statusCode, message) ==
    [name |-> name, code |-> code, statusCode |-> statusCode, message |-> message]

NotFoundError(message) == Thrown("TransactionError", "NOT_FOUND", 404, message)

RpcError(message) == Thrown("TransactionError", "RPC_ERROR", 500, message)

ExternalApiError(message) == Thrown("TransactionError", "EXTERNAL_API_ERROR", 502, message)

(* a rejected fetch *)
TypeError(message) == Thrown("TypeError", "", 0, message)

(* response.json() on a body that is no JSON *)
SyntaxError(message) == Thrown("SyntaxError", "", 0, message)

(* new Error(message) *)
PlainError(message) == Thrown("Error", "", 0, message)

(* the client-side TransactionError of transactionService.ts *)
ClientTransactionError(message, code) == Thrown("TransactionError", code, 0, message)

(* `error instanceof TransactionError` (backend/errors.ts) *)
IsTransactionError(e) == e.name = "TransactionError" /\ e.statusCode # 0

(* Message texts *)
W_not_found == <<"n","o","t"," ","f","o","u","n","d">>
W_does_not_exist == <<"d","o","e","s"," ","n","o","t"," ","e","x","i","s","t">>
W_null == <<"n","u","l","l">>
W_undefined == <<"u","n","d","e","f","i","n","e","d">>
W_could_not_find == <<"c","o","u","l","d"," ","n","o","t"," ","f","i","n","d">>
W_invalid == <<"i","n","v","a","l","i","d">>
W_digest == <<"d","i","g","e","s","t">>

MsgSuiRpcError == <<"S","u","i"," ","R","P","C"," ","e","r","r","o","r">>
MsgTransactionNotFound ==
    <<"T","r","a","n","s","a","c","t","i","o","n"," ","n","o","t"," ","f","o","u","n","d",":"," ">>
MsgInvalidTransactionDigest ==
    <<"I","n","v","a","l","i","d"," ","t","r","a","n","s","a","c","t","i","o","n"," ",
      "d","i","g","e","s","t",":"," ">>
MsgDigestRequired ==
    <<"D","i","g","e","s","t"," ","i","s"," ","r","e","q","u","i","r","e","d">>
MsgFetchFailed == <<"f","e","t","c","h"," ","f","a","i","l","e","d">>
MsgUnexpectedToken == <<"U","n","e","x","p","e","c","t","e","d"," ","t","o","k","e","n">>
MsgFailedToConnect ==
    <<"F","a","i","l","e","d"," ","t","o"," ","c","o","n","n","e","c","t"," ","t","o"," ","S","u","i"," ","R","P","C">>
MsgRpcPrefix == <<"R","P","C"," ","E","r","r","o","r",":"," ">>

(* Messages of the JSON-RPC error object a node answers with *)
NodeCouldNotFind == <<"C","o","u","l","d"," ","n","o","t"," ","f","i","n","d">>
NodeInvalidDigest == <<"I","n","v","a","l","i","d"," ","d","i","g","e","s","t">>
NodeInvalidParams == <<"I","n","v","a","l","i","d"," ","p","a","r","a","m","s">>

(* the five `message.includes(...)` tests for a missing transaction *)
SaysNotFound(message) ==
    \/ Includes(message, W_not_found)
    \/ Includes(message, W_does_not_exist)
    \/ Includes(message, W_null)
    \/ Includes(message, W_undefined)
    \/ Includes(message, W_could_not_find)

(* message.includes('invalid') && message.includes('digest') *)
SaysInvalidDigest(message) == Includes(message, W_invalid) /\ Includes(message, W_digest)

----------------------------------------------------------------------------
(* digestValidator.ts: SuiRpcService.  What the RPC node does with one      *)
(* request is its reply: the fetch rejects, the body is unreadable, the     *)
(* body carries a JSON-RPC error, or it carries the transaction.            *)

NodeReject == [kind |-> "reject", message |-> <<>>]

NodeUnreadable == [kind |-> "unreadable", message |-> <<>>]

NodeError(message) == [kind |-> "error", message |-> message]

NodeResult == [kind |-> "result", message |-> <<>>]

NodeReplies ==
    {NodeReject, NodeUnreadable, NodeResult,
     NodeError(NodeCouldNotFind), NodeError(NodeInvalidDigest),
     NodeError(NodeInvalidParams), NodeError(<<>>)}

Returned(v) == [threw |-> FALSE, value |-> <<v>>, error |-> <<>>]

Threw(e) == [threw |-> TRUE, value |-> <<>>, error |-> <<e>>]

(* SuiRpcService.call after its fetch settled *)
call(reply, t) ==
    IF reply.kind = "reject" THEN Threw(TypeError(MsgFetchFailed))
    ELSE IF reply.kind = "unreadable" THEN Threw(SyntaxError(MsgUnexpectedToken))
    ELSE IF reply.kind = "error"
    THEN Threw(RpcError(IF reply.message = <<>> THEN MsgSuiRpcError ELSE reply.message))
    ELSE Returned(t)

(* SuiRpcService.getTransactionBlock after its call settled *)
getTransactionBlock(digest, reply, t) ==
    LET result == call(reply, t)
    IN  IF ~result.threw THEN result
        ELSE LET error == result.error[1]
                 message == toLowerCase(error.message)
             IN  IF IsTransactionError(error) /\ error.code = "RPC_ERROR"
                    /\ SaysNotFound(message)
                 THEN Threw(NotFoundError(MsgTransactionNotFound \o digest))
                 ELSE IF IsTransactionError(error) /\ error.code = "RPC_ERROR"
                         /\ SaysInvalidDigest(message)
                 THEN Threw(RpcError(MsgInvalidTransactionDigest \o digest))
                 ELSE result

----------------------------------------------------------------------------
(* gemini/client.ts: the LLM client.  What the LLM service does with one    *)
(* request is its reply: the fetch rejects, the status is not OK, the body  *)
(* is unreadable, the text is one parseLLMResponse gives up on, or the text *)
(* parses to an explanation with or without `overview.summary`.             *)

GeminiModel == "gemini-2.5-flash"

LlmReplies == {"reject", "non_ok", "unreadable", "unparsable", "plain", "summary"}

(* The text of `overview.summary`, in the shape of a narrative *)
LlmSummary == [parts |-> <<"LLM summary">>, amount |-> <<>>, gas |-> <<>>]

Explanation(summary) == [overview |-> [summary |-> summary]]

(* parseLLMResponse(text): <<>> is null *)
parseLLMResponse(reply) ==
    IF reply = "summary" THEN <<Explanation(<<LlmSummary>>)>>
    ELSE IF reply = "plain" THEN <<Explanation(<<>>)>>
    ELSE <<>>

LlmFailure(error, model) ==
    [success |-> FALSE, explanation |-> <<>>, simple_explanation |-> <<>>,
     error |-> error, model |-> model]

(* The body of getEnhancedExplanation / getSimpleExplanation up to the      *)
(* parsed text: a failure response, or <<>> when the text parsed            *)
LlmFailureOf(apiKey, reply) ==
    IF ~apiKey THEN <<LlmFailure("Gemini API key not configured", "")>>
    ELSE IF reply = "reject" THEN <<LlmFailure("fetch failed", "")>>
    ELSE IF reply = "non_ok" THEN <<LlmFailure("Gemini API error", "")>>
    ELSE IF reply = "unreadable" THEN <<LlmFailure("Unexpected token", "")>>
    ELSE IF parseLLMResponse(reply) = <<>>
    THEN <<LlmFailure("Failed to parse LLM response", GeminiModel)>>
    ELSE <<>>

getEnhancedExplanation(apiKey, reply) ==
    IF LlmFailureOf(apiKey, reply) # <<>> THEN LlmFailureOf(apiKey, reply)[1]
    ELSE [success |-> TRUE, explanation |-> parseLLMResponse(reply),
          simple_explanation |-> <<>>, error |-> "", model |-> GeminiModel]

getSimpleExplanation(apiKey, reply) ==
    IF LlmFailureOf(apiKey, reply) # <<>> THEN LlmFailureOf(apiKey, reply)[1]
    ELSE [success |-> TRUE, explanation |-> <<>>,
          simple_explanation |-> parseLLMResponse(reply), error |-> "",
          model |-> GeminiModel]

----------------------------------------------------------------------------
(* blockberryService.ts: getRawTransaction.  The service answers with the   *)
(* raw transaction, with 404, or fails (another status, a rejected fetch).  *)

BlockberryReplies == {"data", "missing", "failure"}

getRawTransaction(reply) ==
    IF reply = "data" THEN Returned(<<"blockberry">>)
    ELSE IF reply = "missing" THEN Returned(<<>>)
    ELSE Threw(ExternalApiError(MsgFetchFailed))

----------------------------------------------------------------------------
(* app/api/transactions/[digest]/route.ts: GET, and POST /api/explain       *)

MsgDigestIsRequired ==
    <<"T","r","a","n","s","a","c","t","i","o","n"," ","d","i","g","e","s","t"," ",
      "i","s"," ","r","e","q","u","i","r","e","d">>

MsgInternal ==
    <<"I","n","t","e","r","n","a","l"," ","s","e","r","v","e","r"," ","e","r","r","o","r">>

(* `explainParam ? explainParam : (geminiConfigured ? 'enhanced' : 'none')` *)
ExplainMode(explainParam, geminiConfigured) ==
    IF explainParam # "" THEN explainParam
    ELSE IF geminiConfigured THEN "enhanced" ELSE "none"

Failure(status, error, code) ==
    [status |-> status, success |-> FALSE, error |-> error, code |-> code,
     data |-> <<>>, explainer |-> <<>>, gemini |-> <<>>]

(* The catch block of GET *)
GetFailure(error) ==
    IF IsTransactionError(error)
    THEN Failure(error.statusCode, error.message, error.code)
    ELSE Failure(500, MsgInternal, "INTERNAL_ERROR")

(* `llmExplanation?.success && llmExplanation.explanation?.overview?.summary` *)
HasSummary(llmExplanation) ==
    /\ llmExplanation # <<>>
    /\ llmExplanation[1].success
    /\ llmExplanation[1].explanation # <<>>
    /\ llmExplanation[1].explanation[1].overview.summary # <<>>

(* Lines 62-66: the copy of the transaction that goes into the response *)
EnhancedTransaction(transaction, llmExplanation) ==
    IF HasSummary(llmExplanation)
    THEN [transaction EXCEPT
              !.plainEnglish = llmExplanation[1].explanation[1].overview.summary[1]]
    ELSE transaction

(* Lines 78-94: the optional `gemini` field *)
GeminiField(llmExplanation, explainMode, geminiConfigured) ==
    IF llmExplanation # <<>> /\ llmExplanation[1].success
       /\ llmExplanation[1].explanation # <<>>
    THEN <<[explanation |-> llmExplanation[1].explanation,
            simple_explanation |-> llmExplanation[1].simple_explanation,
            model |-> llmExplanation[1].model]>>
    ELSE IF explainMode # "none" /\ ~geminiConfigured
    THEN <<[error |-> "Gemini API not configured", configured |-> FALSE]>>
    ELSE IF llmExplanation # <<>> /\ ~llmExplanation[1].success
    THEN <<[error |-> llmExplanation[1].error, configured |-> TRUE]>>
    ELSE <<>>

(* Lines 62-96 of GET: the response once the LLM step is over or skipped *)
GetSuccess(transaction, llmExplanation, explainMode, geminiConfigured) ==
    [status |-> 200, success |-> TRUE, error |-> <<>>, code |-> "",
     data |-> <<EnhancedTransaction(transaction, llmExplanation)>>,
     explainer |-> <<[enabled |-> explainMode # "none", mode |-> explainMode,
                      configured |-> geminiConfigured]>>,
     gemini |-> GeminiField(llmExplanation, explainMode, geminiConfigured)]

(* POST /api/explain: its responses *)
ExplainFailure(status, error) == [status |-> status, success |-> FALSE, error |-> error]

ExplainResponse(transaction, result) ==
    IF ~result.success
    THEN [status |-> 500, success |-> FALSE, error |-> result.error,
          configured |-> TRUE]
    ELSE [status |-> 200, success |-> TRUE, explanation |-> result.explanation,
          simple_explanation |-> result.simple_explanation, model |-> result.model,
          transaction |-> [status |-> transaction.status]]

----------------------------------------------------------------------------
(* State machine of one request to the server.  `api` is the handler        *)
(* serving it: where it waits (pc), what it was asked, the requests it has  *)
(* sent to the RPC node and to the LLM service, the translated transaction  *)
(* and the response, the replies it got from the node, from Blockberry and *)
(* from the LLM service ("": none).  `tx` is the transaction the node      *)
(* holds.                                                                   *)

ApiIdle ==
    [pc |-> "idle", route |-> "", digest |-> <<>>, explainParam |-> "",
     geminiConfigured |-> FALSE, rpcCalls |-> 0, llmCalls |-> 0,
     nodeReply |-> "", blockberryReply |-> "", llmReply |-> "",
     transaction |-> <<>>, llmExplanation |-> <<>>, response |-> <<>>]

Respond(a, response) == [a EXCEPT !.pc = "done", !.response = <<response>>]

(* getTransaction -> getEnhancedTransaction -> getTransactionBlock -> call: *)
(* the request to the node goes out                                         *)
SendRpc(a) == [a EXCEPT !.pc = "rpc", !.rpcCalls = @ + 1]

(* GET up to its first await that leaves the process *)
StartGet(digest, explainParam, geminiConfigured) ==
    LET a == [ApiIdle EXCEPT !.route = "GET", !.digest = digest,
                             !.explainParam = explainParam,
                             !.geminiConfigured = geminiConfigured]
    IN  IF IsBlank(digest)
        THEN Respond(a, Failure(400, MsgDigestIsRequired, "INVALID_DIGEST"))
        ELSE SendRpc(a)

(* POST /api/explain up to its first await that leaves the process; `mode`  *)
(* is "" when the body has none                                             *)
StartExplain(digest, mode, geminiConfigured) ==
    LET a == [ApiIdle EXCEPT !.route = "POST", !.digest = digest,
                             !.explainParam = IF mode = "" THEN "enhanced" ELSE mode,
                             !.geminiConfigured = geminiConfigured]
    IN  IF digest = <<>> THEN Respond(a, ExplainFailure(400, MsgDigestRequired))
        ELSE IF ~geminiConfigured THEN Respond(a, ExplainFailure(503, <<>>))
        ELSE SendRpc(a)

(* The handler when the node's reply is in: getTransactionBlock settles,    *)
(* and getEnhancedTransaction asks Blockberry or the handler answers        *)
AfterRpc(a, reply, t) ==
    LET result == getTransactionBlock(a.digest, reply, t)
        b == [a EXCEPT !.nodeReply = reply.kind]
    IN  IF ~result.threw THEN [b EXCEPT !.pc = "blockberry"]
        ELSE IF a.route = "GET" THEN Respond(b, GetFailure(result.error[1]))
        ELSE Respond(b, ExplainFailure(404, result.error[1].message))

(* AfterBlockberry without the try/catch around getRawTransaction *)
AfterBlockberryFatal(a, reply, t) ==
    IF getRawTransaction(reply).threw
    THEN Respond([a EXCEPT !.blockberryReply = reply],
                 IF a.route = "GET" THEN GetFailure(getRawTransaction(reply).error[1])
                 ELSE ExplainFailure(404, getRawTransaction(reply).error[1].message))
    ELSE LET transaction == translateTransaction(t)
             explainMode == ExplainMode(a.explainParam, a.geminiConfigured)
             b == [a EXCEPT !.transaction = <<transaction>>, !.blockberryReply = reply]
         IN  IF a.route = "POST" \/ (explainMode # "none" /\ a.geminiConfigured)
             THEN [b EXCEPT !.pc = "llm", !.llmCalls = @ + 1]
             ELSE Respond(b, GetSuccess(transaction, <<>>, explainMode,
                                        a.geminiConfigured))

(* AfterBlockberry asking the LLM whatever the explain mode is *)
AfterBlockberryAnyMode(a, reply, t) ==
    LET transaction == translateTransaction(t)
        explainMode == ExplainMode(a.explainParam, a.geminiConfigured)
        b == [a EXCEPT !.transaction = <<transaction>>, !.blockberryReply = reply]
    IN  IF a.route = "POST" \/ a.geminiConfigured
        THEN [b EXCEPT !.pc = "llm", !.llmCalls = @ + 1]
        ELSE Respond(b, GetSuccess(transaction, <<>>, explainMode, a.geminiConfigured))

(* The handler when Blockberry's reply is in: getEnhancedTransaction        *)
(* swallows a failure and translates; then the LLM is asked, or GET answers *)
AfterBlockberry(a, reply, t) ==
    LET blockberryData == IF getRawTransaction(reply).threw THEN <<>>
                          ELSE getRawTransaction(reply).value[1]
        transaction == translateTransaction(t)
        explainMode == ExplainMode(a.explainParam, a.geminiConfigured)
        b == [a EXCEPT !.transaction = <<transaction>>, !.blockberryReply = reply]
    IN  IF a.route = "POST" \/ (explainMode # "none" /\ a.geminiConfigured)
        THEN [b EXCEPT !.pc = "llm", !.llmCalls = @ + 1]
        ELSE Respond(b, GetSuccess(transaction, <<>>, explainMode, a.geminiConfigured))

(* The handler when the LLM service's reply is in *)
AfterLlm(a, reply) ==
    LET explainMode == ExplainMode(a.explainParam, a.geminiConfigured)
        result == IF a.route = "POST" /\ a.explainParam = "simple"
                  THEN getSimpleExplanation(a.geminiConfigured, reply)
                  ELSE getEnhancedExplanation(a.geminiConfigured, reply)
        b == [a EXCEPT !.llmReply = reply, !.llmExplanation = <<result>>]
    IN  IF a.route = "GET"
        THEN Respond(b, GetSuccess(a.transaction[1], <<result>>, explainMode,
                                   a.geminiConfigured))
        ELSE Respond(b, ExplainResponse(a.transaction[1], result))

----------------------------------------------------------------------------
(* hooks/useTransaction.ts and HomePage (unnamed/part_001): `ui` is the     *)
(* hook's state and the `data` its fetchTransaction read (<<>>: none)       *)

UiIdle ==
    [pc |-> "idle", transaction |-> <<>>, geminiExplanation |-> <<>>,
     geminiInfo |-> <<>>, isLoading |-> FALSE, error |-> <<>>, data |-> <<>>]

(* setIsLoading(true); setError(null) *)
UiLoading == [UiIdle EXCEPT !.pc = "loading", !.isLoading = TRUE]

MsgFailedToFetch ==
    <<"F","a","i","l","e","d"," ","t","o"," ","f","e","t","c","h">>

MsgFailedToFetchTransaction == MsgFailedToFetch \o
    <<" ","t","r","a","n","s","a","c","t","i","o","n">>

(* The catch and finally blocks of fetchTransaction *)
UiFailed(u, err) ==
    [u EXCEPT !.pc = "settled", !.isLoading = FALSE,
              !.error = <<[message |-> err.message,
                           code |-> IF err.name # "" THEN err.name ELSE "FETCH_ERROR"]>>,
              !.geminiExplanation = <<>>, !.geminiInfo = <<>>]

(* fetchTransaction once its fetch settled: `delivery` says whether the     *)
(* response arrived, the fetch rejected or the body was unreadable          *)
UiSettled(u, delivery, response) ==
    IF delivery = "reject" THEN UiFailed(u, TypeError(MsgFailedToFetch))
    ELSE IF delivery = "unreadable" THEN UiFailed(u, SyntaxError(MsgUnexpectedToken))
    ELSE LET data == response
             v == [u EXCEPT !.data = <<data>>]
         IN  IF ~data.success
             THEN UiFailed(v, PlainError(IF data.error # <<>> THEN data.error
                                         ELSE MsgFailedToFetchTransaction))
             ELSE [v EXCEPT !.pc = "settled", !.isLoading = FALSE,
                            !.transaction = data.data,
                            !.geminiExplanation =
                                IF data.gemini # <<>>
                                   /\ "explanation" \in DOMAIN data.gemini[1]
                                   /\ data.gemini[1].explanation # <<>>
                                THEN data.gemini[1].explanation ELSE <<>>,
                            !.geminiInfo = data.explainer]

Deliveries == {"delivered", "reject", "unreadable"}

(* The keys of HomePage's errorMessages table *)
ErrorKinds ==
    {"NOT_FOUND", "INVALID_DIGEST", "RPC_ERROR", "VALIDATION_ERROR",
     "EXTERNAL_API_ERROR", "UNKNOWN", "FETCH_ERROR", "INTERNAL_ERROR"}

ErrorTitle(kind) ==
    CASE kind = "NOT_FOUND" -> "Transaction Not Found"
      [] kind = "INVALID_DIGEST" -> "Invalid Transaction Format"
      [] kind = "RPC_ERROR" -> "Network Error"
      [] kind = "VALIDATION_ERROR" -> "Validation Error"
      [] kind = "EXTERNAL_API_ERROR" -> "External Service Error"
      [] kind = "UNKNOWN" -> "Something Went Wrong"
      [] kind = "FETCH_ERROR" -> "Connection Error"
      [] kind = "INTERNAL_ERROR" -> "Server Error"

(* `errorMessages[error.code] || errorMessages.UNKNOWN` *)
getErrorDisplay(error) ==
    IF error.code \in ErrorKinds THEN ErrorTitle(error.code) ELSE ErrorTitle("UNKNOWN")

----------------------------------------------------------------------------
(* transactionService.ts fetchTransaction, the provider of sui/queries.ts   *)
(* and the /api/sui proxy: `fetcher` is one client-side fetch, with the     *)
(* requests sent to the proxy and by the proxy to the node                  *)

FetcherIdle ==
    [pc |-> "idle", digest |-> <<>>, proxyCalls |-> 0, rpcCalls |-> 0,
     proxyResponse |-> <<>>, outcome |-> <<>>]

MsgInvalidFormat ==
    <<"I","n","v","a","l","i","d"," ","t","r","a","n","s","a","c","t","i","o","n"," ",
      "d","i","g","e","s","t"," ","f","o","r","m","a","t",":"," ">>

(* validateDigestForRPC: <<>> when the digest passes *)
validateDigestForRPC(digest) ==
    LET normalized == normalizeDigest(digest)
    IN  IF ~isValidTransactionDigest(normalized)
        THEN <<ClientTransactionError(MsgInvalidFormat \o digest, "INVALID_DIGEST")>>
        ELSE <<>>

Settle(f, outcome) == [f EXCEPT !.pc = "done", !.outcome = <<outcome>>]

(* fetchTransaction up to the fetch of the provider's query *)
StartFetch(digest) ==
    LET normalizedDigest == normalizeDigest(digest)
        f == [FetcherIdle EXCEPT !.digest = normalizedDigest]
    IN  IF validateDigestForRPC(normalizedDigest) # <<>>
        THEN Settle(f, Threw(validateDigestForRPC(normalizedDigest)[1]))
        ELSE [f EXCEPT !.pc = "proxy", !.proxyCalls = @ + 1]

MsgWithDigest ==
    <<"T","h","e"," ","t","r","a","n","s","a","c","t","i","o","n"," ","w","i","t","h"," ","d","i","g","e","s","t"," ">>

MsgDoesNotExist ==
    <<" ","d","o","e","s"," ","n","o","t"," ","e","x","i","s","t"," ","o","n"," ","t","h","e"," ","b","l","o","c","k","c","h","a","i","n",".">>

(* The catch block of fetchTransaction *)
FetchFailure(error, normalizedDigest) ==
    LET message == toLowerCase(error.message)
    IN  IF SaysNotFound(message)
        THEN ClientTransactionError(MsgTransactionNotFound \o MsgWithDigest
                                    \o normalizedDigest \o MsgDoesNotExist, "NOT_FOUND")
        ELSE IF SaysInvalidDigest(message)
        THEN ClientTransactionError(MsgInvalidTransactionDigest \o normalizedDigest,
                                    "INVALID_DIGEST")
        ELSE ClientTransactionError(MsgRpcPrefix \o error.message, "RPC_ERROR")

(* The proxy's POST handler once the node's reply is in: its response body  *)
ProxyResponse(reply, t) ==
    IF reply.kind \in {"reject", "unreadable"}
    THEN [status |-> 500, error |-> MsgFailedToConnect, message |-> <<>>,
          result |-> <<>>]
    ELSE IF reply.kind = "error"
    THEN [status |-> 400, error |-> <<>>,
          message |-> IF reply.message = <<>> THEN MsgSuiRpcError ELSE reply.message,
          result |-> <<>>]
    ELSE [status |-> 200, error |-> <<>>, message |-> <<>>, result |-> <<t>>]

(* The provider's query once the proxy's response is in: `data.error` makes *)
(* it throw, anything else returns `data.result` (<<>>: undefined)          *)
query(data) ==
    IF data.error # <<>> THEN Threw(PlainError(data.error))
    ELSE Returned(data.result)

(* fetchTransaction once the provider's query settled *)
FetchSettled(f, result) ==
    IF result.threw THEN Settle(f, Threw(FetchFailure(result.error[1], f.digest)))
    ELSE Settle(f, result)

----------------------------------------------------------------------------
(* Inputs of the request state machine *)

ValidHex == Repeat("a", HexLen)

ValidPrefixed == <<"0", "X">> \o Repeat("F", HexLen)

ValidBase58 == Repeat("B", Base58Max)

PaddedBase58 == <<" ">> \o Repeat("z", Base58Min) \o <<" ">>

ShortText == <<"a", "b", "c">>

ShortPrefixed == <<"0", "x">> \o Repeat("f", HexLen - 1)

NotBase58 == Repeat("l", Base58Min)

Blank == <<" ">>

Digests ==
    {<<>>, Blank, ValidHex, ValidPrefixed, ValidBase58, PaddedBase58,
     ShortText, ShortPrefixed, NotBase58}

ExplainParams == {"", "enhanced", "simple", "none"}

(* The transactions a node may hold: a transfer, a failed transfer and a    *)
(* programmable call                                                        *)
RequestTxs ==
    {RawTx("Single", <<>>, <<TransferSuiCmd(AddrB, 5)>>,
           <<BalanceChange(Sender, SUI_TYPE, A_out), BalanceChange(AddrB, SUI_TYPE, A_in)>>,
           <<>>, <<>>, Gas(<<"7">>, <<"3">>, <<"2">>), "success"),
     RawTx("Single", <<>>, <<TransferSuiCmd(AddrB, 5)>>, <<>>, <<>>, <<>>,
           Gas(<<"7">>, <<"3">>, <<"2">>), "failure"),
     RawTx("ProgrammableTransaction", <<>>, <<MoveCallCmd("0x9", N_amm, N_swap)>>,
           <<BalanceChange(Sender, USDC_TYPE, A_out)>>, <<>>, <<>>, NoGas, "success")}

(* Event inputs: up to MaxEvents events of modules of the three known      *)
(* protocols and of another module, one of them without a package id        *)
ProtocolEvents ==
    {ModuleEvent("0x1", P_deepbook), ModuleEvent("0x1", P_cetus),
     ModuleEvent("0x1", P_turbo), ModuleEvent("0x1", P_vault),
     ModuleEvent("", P_cetus)}

EventInputs ==
    {RawTx("ProgrammableTransaction", <<>>, <<>>, <<>>, <<>>, evs, NoGas, "success") :
        evs \in SeqsUpTo(ProtocolEvents, MaxEvents)}

(* Inputs for the comparison of the two classifiers: the sender's balance  *)
(* changes in the native coin and in one other coin                         *)
CompareInputs ==
    {RawTx(kc[1], <<>>, kc[2], bcs, ocs, evs, NoGas, "success") :
        kc \in {<<"Single", <<TransferSuiCmd(AddrB, 5)>>>>,
                <<"Single", <<>>>>,
                <<"ProgrammableTransaction", <<MoveCallCmd("0x9", N_amm, N_swap)>>>>,
                <<"ProgrammableTransaction", <<MoveCallCmd("0x9", N_amm, N_custom)>>>>},
        bcs \in SeqsUpTo(ClassifyChanges, MaxChanges),
        ocs \in {<<>>, <<ObjectChange("created", "0x51", T_nft)>>},
        evs \in {<<>>, <<Event(E_swap, P_pool)>>}}

(* A balance change whose owner is an object, not an address *)
ObjectOwnedChange(owner, coin, amt) ==
    [owner |-> [AddressOwner |-> "", ObjectOwner |-> owner],
     coinType |-> coin, amount |-> amt]

(* A pure input as queries.ts declares it: a value, no object id and no     *)
(* coin type                                                                *)
PureInput(value) == [objectId |-> "", coinType |-> "", value |-> value]

StepChanges ==
    {BalanceChange(Sender, SUI_TYPE, A_out), BalanceChange(AddrB, USDC_TYPE, A_in),
     BalanceChange(AddrB, SUI_TYPE, <<"0">>), ObjectOwnedChange("0x81", USDC_TYPE, A_in)}

StepInputLists ==
    InputLists \cup {<<PureInput(5)>>, <<TxInput("0x71", USDC_TYPE, 0), PureInput(5)>>}

(* Step inputs: programmable transactions with object, coin and pure        *)
(* inputs, Move calls, balance changes owned by the sender, by another      *)
(* address or by an object, and transactions of the other kinds             *)
StepTxs ==
    {RawTx(sh[1], sh[2], sh[3], bcs, <<>>, <<>>, gas, st) :
        sh \in ({"ProgrammableTransaction"} \X StepInputLists \X SeqsUpTo(MoveCmds, MaxCmds))
                \cup ({"Single"} \X {<<>>} \X {<<>>, <<TransferSuiCmd(AddrB, 5)>>})
                \cup ({"Batch"} \X {<<>>} \X {<<>>}),
        bcs \in SeqsUpTo(StepChanges, MaxChanges),
        gas \in {NoGas, Gas(<<"7">>, <<"3">>, <<"2">>)},
        st \in {"success", "failure"}}

(* Recipient inputs: transfer commands that name the sender or another      *)
(* address, TransferObjects with no, one or two objects, in Single and       *)
(* programmable transactions, with balance changes of the sender and others  *)
RecipientCmds ==
    {TransferSuiCmd(Sender, 5), TransferSuiCmd(AddrB, 5),
     TransferObjectsCmd(<<"0x61">>, Sender), TransferObjectsCmd(<<>>, Sender),
     TransferObjectsCmd(<<"0x61", "0x62">>, AddrC)}

RecipientTxs ==
    {RawTx(kind, <<>>, cmds, bcs, <<>>, <<>>, NoGas, st) :
        kind \in {"Single", "ProgrammableTransaction"},
        cmds \in SeqsUpTo(RecipientCmds, MaxCmds),
        bcs \in SeqsUpTo(TranslateChanges, MaxChanges),
        st \in {"success", "failure"}}

(* Inputs with absent parts: a response from which the node left out any   *)
(* of gasUsed, balanceChanges, objectChanges and events                     *)
OptionalFields == {"gasUsed", "balanceChanges", "objectChanges", "events"}

Without(t, fields) ==
    [f \in DOMAIN t |-> IF f \in fields THEN <<>> ELSE t[f]]

OptionalBases ==
    {RawTx(kc[1], <<>>, kc[2], bcs, ocs, evs, Gas(<<"7">>, <<"3">>, <<"2">>), st) :
        kc \in {<<"Single", <<TransferSuiCmd(AddrB, 5)>>>>,
                <<"ProgrammableTransaction", <<MoveCallCmd("0x9", N_amm, N_swap)>>>>},
        bcs \in {<<>>, <<BalanceChange(Sender, SUI_TYPE, A_out),
                         BalanceChange(AddrB, SUI_TYPE, A_in)>>},
        ocs \in {<<>>, <<ObjectChange("deleted", "0x52", T_burn)>>},
        evs \in {<<>>, <<Event(E_swap, P_pool)>>},
        st \in {"success", "failure"}}

OptionalInputs == {Without(t, fields) : t \in OptionalBases, fields \in SUBSET OptionalFields}

----------------------------------------------------------------------------
(* sui/queries.ts withRetry.  `retry` is one call of withRetry: where it is *)
(* (pc: idle, call = awaiting fn(), wait = awaiting the timer, done), the   *)
(* loop counter, the settled results of the calls of fn in order, the       *)
(* number of calls started, the delays of the timers that fired, the timer  *)
(* that is set, lastError and the outcome of withRetry itself.              *)

MaxRetries == 2

DefaultMaxRetries == 3

RetryIdle ==
    [pc |-> "idle", maxRetries |-> 0, attempt |-> 0, started |-> 0, calls |-> <<>>,
     timer |-> <<>>, waits |-> <<>>, lastError |-> <<>>, outcome |-> <<>>]

(* `Math.pow(2, attempt) * 1000` *)
Backoff(attempt) == (2 ^ attempt) * 1000

(* The loop head letting one attempt too many through *)
EnterLoopOnceMore(r) ==
    IF r.attempt <= r.maxRetries + 1
    THEN [r EXCEPT !.pc = "call", !.started = @ + 1]
    ELSE [r EXCEPT !.pc = "done",
                   !.outcome = <<[threw |-> TRUE, value |-> <<>>, error |-> r.lastError]>>]

(* The loop head `attempt <= maxRetries`: call fn once more, or leave the   *)
(* loop and `throw lastError`                                               *)
EnterLoop(r) ==
    IF r.attempt <= r.maxRetries
    THEN [r EXCEPT !.pc = "call", !.started = @ + 1]
    ELSE [r EXCEPT !.pc = "done",
                   !.outcome = <<[threw |-> TRUE, value |-> <<>>, error |-> r.lastError]>>]

(* withRetry(fn, options) up to its first await; `options.maxRetries ?? 3` *)
withRetry(maxRetries) ==
    EnterLoop([RetryIdle EXCEPT
                  !.maxRetries = IF maxRetries = <<>> THEN DefaultMaxRetries
                                 ELSE maxRetries[1]])

(* `await fn()` settled: return its value, or keep the error, set the timer *)
(* when another attempt follows, and go on with the loop                    *)
FnSettled(r, result) ==
    LET q == [r EXCEPT !.calls = Append(@, result)] IN
    IF ~result.threw
    THEN [q EXCEPT !.pc = "done", !.outcome = <<Returned(result.value[1])>>]
    ELSE IF q.attempt < q.maxRetries
    THEN [q EXCEPT !.pc = "wait", !.lastError = result.error,
                   !.timer = <<Backoff(q.attempt)>>]
    ELSE EnterLoop([q EXCEPT !.lastError = result.error, !.attempt = @ + 1])

(* The timer of setTimeout(resolve, delay) fired *)
TimerFired(r) ==
    EnterLoop([r EXCEPT !.waits = Append(@, r.timer[1]), !.timer = <<>>,
                        !.attempt = @ + 1])

(* What fn may do: deliver the transaction or fail in one of two ways *)
FnResults(t) ==
    {Returned(t), Threw(RpcError(MsgSuiRpcError)), Threw(TypeError(MsgFetchFailed))}

RetryOptions == {<<>>} \cup {<<n>> : n \in (0 - 1)..MaxRetries}

----------------------------------------------------------------------------
(* The transaction history in localStorage: addToHistory, getHistory and    *)
(* clearHistory of transactionService.ts, which HomePage repeats word for   *)
(* word.  `store` holds the value under the key transactionHistory (<<>>:   *)
(* no such key), the clock that Date.now() reads and the number of calls of *)
(* addToHistory so far.                                                     *)

MaxAdds == 3

HistoryLimit == 50

DigitSeq == <<"0","1","2","3","4","5","6","7","8","9">>

(* The digest numbered n, for n < 100 *)
DigestNo(n) == <<"0","x", DigitSeq[(n \div 10) + 1], DigitSeq[(n % 10) + 1]>>

HistoryItem(digest, timestamp) == [digest |-> digest, timestamp |-> timestamp]

(* `stored ? JSON.parse(stored) : []` *)
getHistory(stored) == IF stored = <<>> THEN <<>> ELSE stored[1]

(* `.slice(0, n)` *)
Slice(s, n) == SubSeq(s, 1, IF Len(s) < n THEN Len(s) ELSE n)

(* addToHistory that keeps the older entries of the same digest *)
addToHistoryKeepingOld(stored, item, writable) ==
    LET history == getHistory(stored)
        updated == Slice(<<item>> \o history, HistoryLimit)
    IN  IF writable THEN <<updated>> ELSE stored

(* addToHistory(item); `writable` is false when localStorage.setItem        *)
(* throws, which the catch block ignores                                    *)
addToHistory(stored, item, writable) ==
    LET history == getHistory(stored)
        filtered == SelectSeq(history, LAMBDA h : h.digest # item.digest)
        updated == Slice(<<item>> \o filtered, HistoryLimit)
    IN  IF writable THEN <<updated>> ELSE stored

(* localStorage.removeItem('transactionHistory') *)
clearHistory(stored) == <<>>

(* A history of n entries added one after the other, digest 1 first *)
HistoryOf(n) == [i \in 1..n |-> HistoryItem(DigestNo(n + 1 - i), n + 1 - i)]

(* The stores a session starts from: no history, an empty one, a short one  *)
(* and one that is full                                                     *)
Stores ==
    {[stored |-> <<>>, now |-> 1, added |-> 0],
     [stored |-> <<HistoryOf(0)>>, now |-> 1, added |-> 0],
     [stored |-> <<HistoryOf(2)>>, now |-> 3, added |-> 0],
     [stored |-> <<HistoryOf(HistoryLimit)>>, now |-> HistoryLimit + 1, added |-> 0]}

(* The digests looked up: of the newest entry, of an old one, of the last   *)
(* of a full history, and two that are new                                  *)
AddedDigests ==
    {DigestNo(1), DigestNo(2), DigestNo(HistoryLimit), DigestNo(HistoryLimit + 1),
     DigestNo(HistoryLimit + 2)}

----------------------------------------------------------------------------
(* HomePage with its useTransaction hook.  `page` holds the hook's state,   *)
(* the calls of handleSubmit whose fetch has not settled yet (each with the *)
(* digest it asked for, the `transaction` its closure captured when it was  *)
(* called and the number of calls in flight at that moment), the number of  *)
(* calls so far, the last call, and the calls                               *)
(* that completed, in the order of completion, with what their fetch        *)
(* brought.                                                                 *)

MaxSubmits == 3

PageIdle ==
    [hook |-> UiIdle, pending |-> <<>>, submitted |-> 0, last |-> <<>>,
     settled |-> <<>>]

(* The TranslatedTransaction the server returns for a digest *)
Fetched(digest, t) == [digest |-> digest] @@ translateTransaction(t)

(* What the server may answer to GET /api/transactions/<digest>, and what   *)
(* the fetch may do                                                         *)
FetchOutcomes == {"ok", "not_found", "reject"}

PageResponse(digest, outcome, t) ==
    IF outcome = "ok" THEN GetSuccess(Fetched(digest, t), <<>>, "enhanced", FALSE)
    ELSE GetFailure(NotFoundError(MsgTransactionNotFound \o digest))

(* handleSubmit(digest) up to the await inside fetchTransaction:            *)
(* setIsLoading(true); setError(null); fetch(...)                           *)
handleSubmit(p, digest) ==
    LET req == [id |-> p.submitted + 1, digest |-> digest,
                transaction |-> p.hook.transaction, inFlight |-> Len(p.pending)]
    IN  [p EXCEPT !.hook = [@ EXCEPT !.pc = "loading", !.isLoading = TRUE,
                                     !.error = <<>>],
                  !.pending = Append(@, req),
                  !.submitted = @ + 1,
                  !.last = <<req>>]

(* The rest of fetchTransaction for the k-th pending req, once its fetch   *)
(* settled                                                                  *)
fetchTransactionSettled(p, k, outcome, t) ==
    LET req == p.pending[k]
        delivery == IF outcome = "reject" THEN "reject" ELSE "delivered"
    IN  [p EXCEPT !.hook = UiSettled(@, delivery, PageResponse(req.digest, outcome, t)),
                  !.pending = SelectSeq(@, LAMBDA c : c.id # req.id),
                  !.settled = Append(@, [id |-> req.id, digest |-> req.digest,
                                         inFlight |-> req.inFlight,
                                         outcome |-> outcome])]

(* The rest of handleSubmit: `if (transaction) addToHistory({digest:        *)
(* transaction.digest, ..., timestamp: Date.now()})` with the transaction   *)
(* of its closure                                                           *)
addCapturedToHistory(st, req, hook, writable) ==
    IF req.transaction # <<>>
    THEN [stored |-> addToHistory(st.stored,
                                  HistoryItem(req.transaction[1].digest, st.now),
                                  writable),
          now |-> st.now + 1, added |-> st.added + 1]
    ELSE st

----------------------------------------------------------------------------
(* State machine: a fetched raw transaction is handed to either translator; *)
(* a request is served by the API, by the hook through the API, or by the   *)
(* client-side fetch through the proxy                                      *)

InitWith(inputs) ==
    /\ tx \in inputs
    /\ enhanced = <<>>
    /\ client = <<>>
    /\ api = ApiIdle
    /\ ui = UiIdle
    /\ fetcher = FetcherIdle
    /\ runs = <<>>
    /\ retry = RetryIdle
    /\ store = [stored |-> <<>>, now |-> 1, added |-> 0]
    /\ page = PageIdle

(* A session that starts with some history in localStorage *)
InitHistory ==
    /\ tx \in RequestTxs
    /\ enhanced = <<>>
    /\ client = <<>>
    /\ api = ApiIdle
    /\ ui = UiIdle
    /\ fetcher = FetcherIdle
    /\ runs = <<>>
    /\ retry = RetryIdle
    /\ store \in Stores
    /\ page = PageIdle

(* enhancedService.translateTransaction(tx) *)
TranslateEnhanced ==
    /\ enhanced = <<>>
    /\ enhanced' = <<translateTransaction(tx)>>
    /\ UNCHANGED <<tx, client, api, ui, fetcher, runs, retry, store, page>>

(* translationService.translateTransaction(tx) *)
TranslateClient ==
    /\ client = <<>>
    /\ client' = <<clientTranslateTransaction(tx)>>
    /\ UNCHANGED <<tx, enhanced, api, ui, fetcher, runs, retry, store, page>>

Run(translator, input, output) ==
    [translator |-> translator, input |-> input, output |-> output]

(* A translator that keeps its recipient list between calls *)
enhancedRunSharing(history, t) ==
    LET out == translateTransaction(t)
        earlier == IF history = <<>> THEN <<>>
                   ELSE history[Len(history)].output.recipients
    IN  Append(history,
               Run("enhanced", t, [out EXCEPT !.recipients = earlier \o out.recipients]))

(* One more call of enhancedService.translateTransaction: the result is     *)
(* computed from the argument alone                                         *)
enhancedRun(history, t) == Append(history, Run("enhanced", t, translateTransaction(t)))

(* One more call of translationService.translateTransaction *)
clientRun(history, t) == Append(history, Run("client", t, clientTranslateTransaction(t)))

(* enhancedService.translateTransaction(t), once more *)
RunEnhanced(t) ==
    /\ Len(runs) < MaxRuns
    /\ runs' = enhancedRun(runs, t)
    /\ UNCHANGED <<tx, enhanced, client, api, ui, fetcher, retry, store, page>>

(* translationService.translateTransaction(t), once more *)
RunClient(t) ==
    /\ Len(runs) < MaxRuns
    /\ runs' = clientRun(runs, t)
    /\ UNCHANGED <<tx, enhanced, client, api, ui, fetcher, retry, store, page>>

(* withRetry(fn, {maxRetries}) is called *)
RetryStart(maxRetries) ==
    /\ retry.pc = "idle"
    /\ retry' = withRetry(maxRetries)
    /\ UNCHANGED <<tx, enhanced, client, api, ui, fetcher, runs, store, page>>

(* The call of fn settles *)
RetryFn(result) ==
    /\ retry.pc = "call"
    /\ retry' = FnSettled(retry, result)
    /\ UNCHANGED <<tx, enhanced, client, api, ui, fetcher, runs, store, page>>

(* The backoff timer fires *)
RetryTimer ==
    /\ retry.pc = "wait"
    /\ retry' = TimerFired(retry)
    /\ UNCHANGED <<tx, enhanced, client, api, ui, fetcher, runs, store, page>>

(* addToHistory({digest, timestamp: Date.now(), ...}); the clock moves on *)
AddToHistory(digest, writable) ==
    /\ store.added < MaxAdds
    /\ store' = [stored |-> addToHistory(store.stored, HistoryItem(digest, store.now),
                                         writable),
                 now |-> store.now + 1, added |-> store.added + 1]
    /\ UNCHANGED <<tx, enhanced, client, api, ui, fetcher, runs, retry, page>>

(* clearHistory() *)
ClearHistory ==
    /\ store.stored # <<>>
    /\ store' = [store EXCEPT !.stored = clearHistory(store.stored)]
    /\ UNCHANGED <<tx, enhanced, client, api, ui, fetcher, runs, retry, page>>

(* The user submits a digest: HomePage.handleSubmit(digest) *)
Submit(digest) ==
    /\ page.submitted < MaxSubmits
    /\ page' = handleSubmit(page, digest)
    /\ UNCHANGED <<tx, enhanced, client, api, ui, fetcher, runs, retry, store>>

(* The fetch of a pending call settles: fetchTransaction finishes and       *)
(* handleSubmit goes on after its await                                     *)
SubmitSettles(k, outcome, writable) ==
    /\ k \in 1..Len(page.pending)
    /\ page' = fetchTransactionSettled(page, k, outcome, tx)
    /\ store' = addCapturedToHistory(store, page.pending[k], page'.hook, writable)
    /\ UNCHANGED <<tx, enhanced, client, api, ui, fetcher, runs, retry>>

(* Nothing is in progress *)
Quiet == api.pc = "idle" /\ ui.pc = "idle" /\ fetcher.pc = "idle"

(* GET /api/transactions/[digest]?explain=... arrives *)
GetRequest(digest, explainParam, geminiConfigured) ==
    /\ Quiet
    /\ api' = StartGet(digest, explainParam, geminiConfigured)
    /\ UNCHANGED <<tx, enhanced, client, ui, fetcher, runs, retry, store, page>>

(* POST /api/explain arrives *)
ExplainRequest(digest, mode, geminiConfigured) ==
    /\ Quiet
    /\ api' = StartExplain(digest, mode, geminiConfigured)
    /\ UNCHANGED <<tx, enhanced, client, ui, fetcher, runs, retry, store, page>>

(* useTransaction.fetchTransaction(digest): the hook always asks for the    *)
(* enhanced explanation                                                     *)
HookFetch(digest, geminiConfigured) ==
    /\ Quiet
    /\ digest # <<>>
    /\ ui' = UiLoading
    /\ api' = StartGet(digest, "enhanced", geminiConfigured)
    /\ UNCHANGED <<tx, enhanced, client, fetcher, runs, retry, store, page>>

(* The RPC node's reply reaches the handler *)
RpcReply(reply) ==
    /\ api.pc = "rpc"
    /\ api' = AfterRpc(api, reply, tx)
    /\ UNCHANGED <<tx, enhanced, client, ui, fetcher, runs, retry, store, page>>

(* Blockberry's reply reaches the handler *)
BlockberryReply(reply) ==
    /\ api.pc = "blockberry"
    /\ api' = AfterBlockberry(api, reply, tx)
    /\ UNCHANGED <<tx, enhanced, client, ui, fetcher, runs, retry, store, page>>

(* The LLM service's reply reaches the handler *)
LlmReply(reply) ==
    /\ api.pc = "llm"
    /\ api' = AfterLlm(api, reply)
    /\ UNCHANGED <<tx, enhanced, client, ui, fetcher, runs, retry, store, page>>

(* The hook's fetch settles *)
HookSettle(delivery) ==
    /\ ui.pc = "loading"
    /\ api.pc = "done"
    /\ ui' = UiSettled(ui, delivery, api.response[1])
    /\ UNCHANGED <<tx, enhanced, client, api, fetcher, runs, retry, store, page>>

(* transactionService.fetchTransaction(digest) *)
ClientFetch(digest) ==
    /\ Quiet
    /\ fetcher' = StartFetch(digest)
    /\ UNCHANGED <<tx, enhanced, client, api, ui, runs, retry, store, page>>

(* The provider's request reaches the proxy, which asks the node; or the    *)
(* provider's fetch rejects                                                 *)
ProxyReceive(delivery) ==
    /\ fetcher.pc = "proxy"
    /\ fetcher' = IF delivery = "delivered"
                  THEN [fetcher EXCEPT !.pc = "node", !.rpcCalls = @ + 1]
                  ELSE FetchSettled(fetcher, Threw(TypeError(MsgFailedToFetch)))
    /\ UNCHANGED <<tx, enhanced, client, api, ui, runs, retry, store, page>>

(* The node's reply reaches the proxy, which answers the provider *)
ProxyReply(reply) ==
    /\ fetcher.pc = "node"
    /\ fetcher' = [fetcher EXCEPT !.pc = "reply",
                                  !.proxyResponse = <<ProxyResponse(reply, tx)>>]
    /\ UNCHANGED <<tx, enhanced, client, api, ui, runs, retry, store, page>>

(* The proxy's response reaches the provider: query and fetchTransaction    *)
(* finish                                                                   *)
ClientSettle ==
    /\ fetcher.pc = "reply"
    /\ fetcher' = FetchSettled(fetcher, query(fetcher.proxyResponse[1]))
    /\ UNCHANGED <<tx, enhanced, client, api, ui, runs, retry, store, page>>

Next == TranslateEnhanced \/ TranslateClient

NextEnhanced == TranslateEnhanced

NextHistory ==
    \/ \E d \in AddedDigests, writable \in BOOLEAN : AddToHistory(d, writable)
    \/ ClearHistory

NextPage ==
    \/ \E d \in {DigestNo(1), DigestNo(2)} : Submit(d)
    \/ \E k \in 1..MaxSubmits, outcome \in FetchOutcomes, writable \in BOOLEAN :
           SubmitSettles(k, outcome, writable)

NextRetry ==
    \/ \E m \in RetryOptions : RetryStart(m)
    \/ \E result \in FnResults(tx) : RetryFn(result)
    \/ RetryTimer

NextRequest ==
    \/ \E d \in Digests, e \in ExplainParams, c \in BOOLEAN : GetRequest(d, e, c)
    \/ \E d \in Digests, m \in {"", "enhanced", "simple"}, c \in BOOLEAN :
           ExplainRequest(d, m, c)
    \/ \E d \in Digests, c \in BOOLEAN : HookFetch(d, c)
    \/ \E reply \in NodeReplies : RpcReply(reply)
    \/ \E reply \in BlockberryReplies : BlockberryReply(reply)
    \/ \E reply \in LlmReplies : LlmReply(reply)
    \/ \E delivery \in Deliveries : HookSettle(delivery)
    \/ \E d \in Digests : ClientFetch(d)
    \/ \E delivery \in {"delivered", "reject"} : ProxyReceive(delivery)
    \/ \E reply \in NodeReplies : ProxyReply(reply)
    \/ ClientSettle

NextRuns == \E t \in RequestTxs : RunEnhanced(t) \/ RunClient(t)

(* Both translators on the translation inputs *)
Spec == InitWith(TranslateInputs) /\ [][Next]_vars

(* The server translator on the classification inputs *)
SpecClassify == InitWith(ClassifyInputs) /\ [][NextEnhanced]_vars

(* Both translators on the gas inputs *)
SpecGas == InitWith(GasInputs) /\ [][Next]_vars

(* Both translators on the inputs with absent parts *)
SpecOptional == InitWith(OptionalInputs) /\ [][Next]_vars

(* The history functions on a session's localStorage *)
SpecHistory == InitHistory /\ [][NextHistory]_vars

(* HomePage: lookups submitted one after the other or overlapping *)
SpecPage == InitWith(RequestTxs) /\ [][NextPage]_vars

(* withRetry around a fetch of the transaction *)
SpecRetry == InitWith(RequestTxs) /\ [][NextRetry]_vars

(* Every call of fn settles and every timer fires *)
SpecRetryLive ==
    /\ SpecRetry
    /\ WF_vars(\E result \in FnResults(tx) : RetryFn(result))
    /\ WF_vars(RetryTimer)

(* Both translators on the step inputs *)
SpecSteps == InitWith(StepTxs) /\ [][Next]_vars

(* Both translators on the recipient inputs *)
SpecRecipients == InitWith(RecipientTxs) /\ [][Next]_vars

(* Repeated and interleaved calls of both translators *)
SpecRuns == InitWith(RequestTxs) /\ [][NextRuns]_vars

(* Both translators on the comparison inputs *)
SpecCompare == InitWith(CompareInputs) /\ [][Next]_vars

(* The server translator on the event inputs *)
SpecEvents == InitWith(EventInputs) /\ [][NextEnhanced]_vars

(* One request, on any of the three paths, for a transaction of the node *)
SpecRequest == InitWith(RequestTxs) /\ [][NextRequest]_vars

----------------------------------------------------------------------------
(* Properties of the classifier (enhancedService.detectTransactionType) *)

Classified == enhanced # <<>>

TypeOf == enhanced[1].transactionType

Amounts(t) == [i \in 1..Len(OrEmpty(t.balanceChanges)) |-> OrZero(parseInt(OrEmpty(t.balanceChanges)[i].amount))]

SomePositive(t) == \E i \in 1..Len(OrEmpty(t.balanceChanges)) : Amounts(t)[i] > 0

SomeNegative(t) == \E i \in 1..Len(OrEmpty(t.balanceChanges)) : Amounts(t)[i] < 0

DistinctCoinTypes(t) == {OrEmpty(t.balanceChanges)[i].coinType : i \in 1..Len(OrEmpty(t.balanceChanges))}

MintRule(t) ==
    LET objects == analyzeObjectChanges(t) IN
    /\ objects.isTokenMint \/ objects.isNftCreation
    /\ ~SomePositive(t)

BurnRule(t) ==
    /\ analyzeObjectChanges(t).isTokenBurn
    /\ ~SomeNegative(t) \/ OrEmpty(t.balanceChanges) = <<>>

SwapRuleOfCode(t) ==
    analyzeEvents(t).isSwapEvent \/ isSwapPattern(analyzeBalanceChanges(t))

IsTransferSuiCommand(c) == Has(c, "TransferSui") /\ ~Has(c, "TransferObjects")

IsPaySuiCommand(c) == ~IsTransferSuiCommand(c) /\ Has(c, "PaySui") /\ ~Has(c, "Pay")

(* A TransferSui command, or a PaySui command whose recipient list has      *)
(* exactly one entry                                                        *)
IsDirectCommand(c) ==
    \/ IsTransferSuiCommand(c)
    \/ IsPaySuiCommand(c) /\ Len(c.PaySui[1].recipients) = 1

(* The conditions of the rules in the order mint, burn, swap, buy, sell,    *)
(* transfer, call                                                           *)
RuleConditions(t) ==
    LET balance == analyzeBalanceChanges(t)
    IN  <<MintRule(t), BurnRule(t), SwapRuleOfCode(t), isBuyPattern(balance),
          isSellPattern(balance), isDirectSuiTransfer(t), TRUE>>

RuleLabels == <<"mint", "burn", "swap", "buy", "sell", "transfer", "call">>

(* The label of the first rule whose condition holds *)
FirstMatch(conds) ==
    RuleLabels[CHOOSE i \in 1..7 : conds[i] /\ \A j \in 1..(i - 1) : ~conds[j]]

(* C1: detectTransactionType returns the label of the first matching rule in *)
(* the order mint, burn, swap, buy, sell, transfer, call: mint wins over a   *)
(* burn signal, a swap-like event and a direct-transfer command; burn wins   *)
(* over a swap-like event; swap wins over a direct native-coin transfer.     *)
C1_FirstMatchWins ==
    Classified =>
        \A conds \in {RuleConditions(tx)} :
            /\ TypeOf = FirstMatch(conds)
            /\ conds[1] => TypeOf = "mint"
            /\ (~conds[1] /\ conds[2]) => TypeOf = "burn"
            /\ (~conds[1] /\ ~conds[2] /\ conds[3]) => TypeOf = "swap"

(* Mint is returned although a burn signal, a swap-like event and a direct  *)
(* TransferSui command are all present *)
C1_Witness ==
    /\ Classified
    /\ MintRule(tx)
    /\ analyzeObjectChanges(tx).isTokenBurn
    /\ analyzeEvents(tx).isSwapEvent
    /\ isDirectSuiTransfer(tx)
    /\ TypeOf = "mint"

(* The swap rule as the specification words it: a swap-like event, or at    *)
(* least 2 distinct coin types in the balance-change list together with a   *)
(* positive and a negative entry *)
SwapRuleAsSpecified(t) ==
    \/ analyzeEvents(t).isSwapEvent
    \/ /\ Cardinality(DistinctCoinTypes(t)) >= 2
       /\ SomePositive(t)
       /\ SomeNegative(t)

(* C3: when neither the mint nor the burn rule matches, the result is swap  *)
(* if and only if some event is swap-like or the balance-change list holds  *)
(* at least 2 distinct coin types with a positive and a negative entry; a   *)
(* list of one single coin type without swap-like event is never swap.      *)
C3_SwapIffTwoCoinTypes ==
    (Classified /\ ~MintRule(tx) /\ ~BurnRule(tx)) =>
        (TypeOf = "swap" <=> SwapRuleAsSpecified(tx))

(* C4: when the mint, burn and swap rules do not match, the result is buy   *)
(* exactly when the list has a negative entry, a positive entry and exactly *)
(* 1 distinct coin type, native or not.                                     *)
C4_BuyIffOneCoinType ==
    (Classified /\ ~MintRule(tx) /\ ~BurnRule(tx) /\ ~SwapRuleAsSpecified(tx)) =>
        (TypeOf = "buy" <=>
            /\ SomeNegative(tx)
            /\ SomePositive(tx)
            /\ Cardinality(DistinctCoinTypes(tx)) = 1)

NoEarlierRule(t) ==
    /\ ~MintRule(t)
    /\ ~BurnRule(t)
    /\ ~SwapRuleOfCode(t)
    /\ ~isBuyPattern(analyzeBalanceChanges(t))
    /\ ~isSellPattern(analyzeBalanceChanges(t))

(* C5: when rules 1 to 5 do not match, the result is transfer if and only  *)
(* if the kind is Single and the transaction has a TransferSui command or a *)
(* PaySui command with exactly one recipient, and otherwise call; a Single  *)
(* transaction whose only command is a PaySui with one recipient is         *)
(* transfer, with two or more recipients call.                              *)
C5_TransferIffDirectTransfer ==
    (Classified /\ NoEarlierRule(tx)) =>
        /\ (tx.kind = "Single" /\ Len(tx.transactions) = 1) =>
              (TypeOf = "transfer" <=> IsDirectCommand(tx.transactions[1]))
        /\ TypeOf = "transfer" =>
              /\ tx.kind = "Single"
              /\ \E i \in 1..Len(tx.transactions) : IsDirectCommand(tx.transactions[i])
        /\ TypeOf # "transfer" => TypeOf = "call"

----------------------------------------------------------------------------
(* Properties of the two translators *)

Translated == client # <<>>

TransactionTypes == {"mint", "burn", "swap", "buy", "sell", "transfer", "call", "unknown"}

UnknownIffFailed(out, t) ==
    /\ out.transactionType \in TransactionTypes
    /\ out.transactionType = "unknown" <=> StatusOf(t) # "success"

(* C2: every transaction gets exactly one of the 8 types, and the type is   *)
(* unknown if and only if the execution status is not success, in both      *)
(* translators.                                                             *)
C2_UnknownIffNotSuccess ==
    /\ Classified => UnknownIffFailed(enhanced[1], tx)
    /\ Translated => UnknownIffFailed(client[1], tx)

RECURSIVE DecimalValue(_)
DecimalValue(s) ==
    IF s = <<>> THEN 0
    ELSE 10 * DecimalValue(SubSeq(s, 1, Len(s) - 1)) + DigitVal(s[Len(s)])

(* What a gas component counts for: its decimal value, 0 when unparsable *)
ComponentValue(s) ==
    IF s # <<>> /\ \A i \in 1..Len(s) : IsDigit(s[i]) THEN DecimalValue(s) ELSE 0

GasArithmetic(out, t) ==
    LET c == IF t.gasUsed = <<>> THEN 0 ELSE ComponentValue(t.gasUsed[1].computationCost)
        st == IF t.gasUsed = <<>> THEN 0 ELSE ComponentValue(t.gasUsed[1].storageCost)
        r == IF t.gasUsed = <<>> THEN 0 ELSE ComponentValue(t.gasUsed[1].storageRebate)
    IN  /\ out.gasInfo.gasFee = c + st
        /\ out.gasInfo.netGasFee = c + st - r

(* C6: in both translators gasFee = computationCost + storageCost and       *)
(* netGasFee = computationCost + storageCost - storageRebate, a missing gas *)
(* record or an unparsable component counting as 0.                         *)
C6_GasArithmetic ==
    /\ Classified => GasArithmetic(enhanced[1], tx)
    /\ Translated => GasArithmetic(client[1], tx)

(* Both translators have run on a record with an unparsable storage cost    *)
(* and a non-zero rebate: the net fee is 12 + 0 - 7                         *)
C6_Witness ==
    /\ Classified
    /\ Translated
    /\ tx.gasUsed = Gas(<<"1","2">>, <<"a","b","c">>, <<"7">>)
    /\ enhanced[1].gasInfo.netGasFee = 5
    /\ client[1].gasInfo.netGasFee = 5

NodeIds(out) == {out.flowNodes[i].id : i \in 1..Len(out.flowNodes)}

FlowGraphWellFormed(out) ==
    /\ <<"sender">> \in NodeIds(out)
    /\ \A i \in 1..Len(out.recipients) :
          \E e \in 1..Len(out.flowEdges) :
             /\ out.flowEdges[e].source = <<"completion">>
             /\ out.flowEdges[e].target = <<"recipient", Idx(i)>>
    /\ \A e \in 1..Len(out.flowEdges) :
          /\ out.flowEdges[e].source \in NodeIds(out)
          /\ out.flowEdges[e].target \in NodeIds(out)

(* C7: the flow graph has a sender node, an edge from completion to every   *)
(* recipient node, and no edge whose source or target is not a node.        *)
C7_FlowGraphWellFormed ==
    /\ Classified => FlowGraphWellFormed(enhanced[1])
    /\ Translated => FlowGraphWellFormed(client[1])

NoDuplicates(seq) == \A i, j \in 1..Len(seq) : seq[i] = seq[j] => i = j

(* C8: the recipient list of the TranslatedTransaction never contains two   *)
(* entries with the same address, in either translator.                     *)
C8_RecipientsDistinct ==
    /\ Classified => NoDuplicates(enhanced[1].recipients)
    /\ Translated => NoDuplicates(client[1].recipients)

(* Address 0xB is named by two balance changes and by a TransferSui command *)
(* and 0xC by a TransferObjects command with two objects                    *)
C8_Witness ==
    /\ Classified
    /\ Translated
    /\ tx.kind = "Single"
    /\ OrEmpty(tx.balanceChanges) = <<BalanceChange(AddrB, SUI_TYPE, A_in),
                             BalanceChange(AddrB, USDC_TYPE, A_in)>>
    /\ tx.transactions = <<TransferSuiCmd(AddrB, 5),
                           TransferObjectsCmd(<<"0x61", "0x62">>, AddrC)>>
    /\ enhanced[1].recipients = <<AddrB>>
    /\ client[1].recipients = <<AddrB, AddrC>>

StepIds(out) == [i \in 1..Len(out.steps) |-> out.steps[i].id]

(* C9: the step identifiers returned by generateTransactionSteps are        *)
(* pairwise distinct.                                                       *)
C9_StepIdsDistinct == Translated => NoDuplicates(StepIds(client[1]))

(* C10: a transaction whose status is not success gets exactly one step,    *)
(* with id failed, type action and title Transaction Failed, and the        *)
(* narrative "This transaction failed." in both translators.                *)
C10_FailedTransaction ==
    StatusOf(tx) # "success" =>
        /\ Translated =>
              /\ Len(client[1].steps) = 1
              /\ client[1].steps[1].id = <<"failed">>
              /\ client[1].steps[1].type = "action"
              /\ client[1].steps[1].title = "Transaction Failed"
              /\ client[1].plainEnglish.parts = <<"This transaction failed.">>
              /\ client[1].plainEnglish.gas = <<>>
        /\ Classified =>
              /\ enhanced[1].plainEnglish.parts = <<"This transaction failed.">>
              /\ enhanced[1].plainEnglish.gas = <<>>

(* A failed programmable transaction with inputs, Move calls, balance       *)
(* changes and a gas record has been translated by both translators         *)
C10_Witness ==
    /\ Classified
    /\ Translated
    /\ tx.status = "failure"
    /\ tx.kind = "ProgrammableTransaction"
    /\ tx.inputs # <<>>
    /\ Len(tx.transactions) = 2
    /\ Len(OrEmpty(tx.balanceChanges)) = 2
    /\ tx.gasUsed # <<>>
    /\ Len(client[1].steps) = 1

----------------------------------------------------------------------------
(* Properties of the request handlers *)

ServedGet == api.route = "GET" /\ api.pc = "done"

(* The node delivered the transaction and Blockberry was asked and replied *)
Enriched == api.blockberryReply # ""

BlockberryFailed == api.blockberryReply = "failure"

LlmFailed == api.llmExplanation # <<>> /\ ~api.llmExplanation[1].success

LlmSucceeded == api.llmExplanation # <<>> /\ api.llmExplanation[1].success

CoreFields ==
    {"plainEnglish", "sender", "recipients", "gasInfo", "moveCalls", "status",
     "transactionType", "flowNodes", "flowEdges"}

(* The `gemini` field is absent or carries an error and no explanation *)
GeminiAbsentOrError(response) ==
    \/ response.gemini = <<>>
    \/ /\ "error" \in DOMAIN response.gemini[1]
       /\ "explanation" \notin DOMAIN response.gemini[1]
       /\ response.gemini[1].error # ""

(* C11: an enrichment failure is never fatal.  In GET, once the node has    *)
(* delivered the transaction, the response is success=true whatever         *)
(* Blockberry and the LLM service answered; when Blockberry failed the data *)
(* has every core field, equal to the core outside plainEnglish; when the   *)
(* LLM call failed (rejected fetch, non-OK reply, unreadable or unparsable  *)
(* output) the data is the core translation and the gemini field is absent  *)
(* or error-valued; and a failed explanation call returns success=false     *)
(* with an error instead of throwing, in GET and in POST /api/explain.      *)
C11_EnrichmentNeverFatal ==
    /\ (ServedGet /\ Enriched) =>
           /\ api.response[1].success
           /\ api.response[1].status = 200
           /\ api.response[1].data # <<>>
           /\ DOMAIN api.response[1].data[1] = CoreFields
           /\ \A f \in CoreFields \ {"plainEnglish"} :
                  api.response[1].data[1][f] = translateTransaction(tx)[f]
    /\ (ServedGet /\ LlmFailed) =>
           /\ api.response[1].data[1] = translateTransaction(tx)
           /\ GeminiAbsentOrError(api.response[1])
    /\ (api.pc = "done" /\ api.llmReply \in {"reject", "non_ok", "unreadable", "unparsable"}) =>
           /\ LlmFailed
           /\ api.llmExplanation[1].error # ""
           /\ api.llmExplanation[1].explanation = <<>>
           /\ api.llmExplanation[1].simple_explanation = <<>>

C11_Witness ==
    /\ ServedGet
    /\ BlockberryFailed
    /\ api.llmReply = "unparsable"
    /\ api.response[1].success
    /\ api.response[1].gemini # <<>>
    /\ api.response[1].data[1].transactionType = "transfer"

(* C12: the LLM enrichment is additive only.  In every successful GET      *)
(* response each field of `data`, plainEnglish included, equals the field   *)
(* of the core translation of the transaction, whether the LLM call         *)
(* succeeded, failed or was skipped.                                        *)
C12_EnrichmentAdditiveOnly ==
    (ServedGet /\ api.response[1].success) =>
        api.response[1].data = <<translateTransaction(tx)>>

(* C13: in GET the LLM explanation is requested at most once, and only      *)
(* after the node delivered the transaction and the core translation was    *)
(* computed; never for a blank digest, a failed fetch, explain mode `none`  *)
(* or a missing API key.                                                    *)
C13_LlmOnceAfterTranslation ==
    api.route = "GET" =>
        /\ api.llmCalls <= 1
        /\ api.llmCalls = 1 =>
               /\ ~IsBlank(api.digest)
               /\ api.rpcCalls = 1
               /\ api.blockberryReply # ""
               /\ api.transaction = <<translateTransaction(tx)>>
               /\ ExplainMode(api.explainParam, api.geminiConfigured) # "none"
               /\ api.geminiConfigured
        /\ (api.pc = "done" /\ ~api.response[1].success) => api.llmCalls = 0

C13_Witness ==
    /\ api.route = "GET"
    /\ api.pc = "done"
    /\ api.llmCalls = 1
    /\ api.explainParam = ""
    /\ api.llmReply = "summary"

----------------------------------------------------------------------------
(* Properties of the translators on incomplete responses *)

AbsentFields(t) == {f \in OptionalFields : t[f] = <<>>}

(* The transaction with every absent list present and empty *)
WithEmptyLists(t) ==
    [f \in DOMAIN t |->
        IF f \in AbsentFields(t) \ {"gasUsed"} THEN <<(<<>>)>> ELSE t[f]]

AllZeroGasInfo == [gasUsed |-> 0, gasFee |-> 0, storageRebate |-> 0, netGasFee |-> 0]

TreatsAbsentAsEmpty(out, fields, reference) ==
    /\ DOMAIN out = fields
    /\ out = reference
    /\ tx.gasUsed = <<>> => out.gasInfo = AllZeroGasInfo

(* C14: with sender, kind and status present, either translateTransaction  *)
(* returns a complete TranslatedTransaction when any of gas-used, balance   *)
(* changes, object changes and events is absent; the result is the one for  *)
(* the same transaction with the absent lists present and empty, and the    *)
(* gas figures of an absent gas record are all zero.                        *)
C14_AbsentPartsTolerated ==
    /\ Classified =>
           TreatsAbsentAsEmpty(enhanced[1], CoreFields,
                               translateTransaction(WithEmptyLists(tx)))
    /\ Translated =>
           TreatsAbsentAsEmpty(client[1], CoreFields \cup {"steps"},
                               clientTranslateTransaction(WithEmptyLists(tx)))

C14_Witness ==
    /\ AbsentFields(tx) = OptionalFields
    /\ Classified
    /\ Translated
    /\ enhanced[1].gasInfo = AllZeroGasInfo
    /\ enhanced[1].recipients = <<AddrB>>

----------------------------------------------------------------------------
(* Properties of the fetch paths *)

AllIn(s, chars) == \A i \in 1..Len(s) : s[i] \in chars

(* A digest in one of the three accepted forms: 64 hex characters, 0x and   *)
(* 64 hex characters, or 32 to 44 Base58 characters                         *)
WellFormedDigest(digest) ==
    LET d == trim(digest)
    IN  \/ Len(d) = 64 /\ AllIn(d, HexChars)
        \/ /\ Len(d) = 66
           /\ SubSeq(d, 1, 2) \in {<<"0", "x">>, <<"0", "X">>}
           /\ AllIn(SubSeq(d, 3, 66), HexChars)
        \/ Len(d) \in 32..44 /\ AllIn(d, Base58Chars)

(* C16: a malformed identifier is rejected before any fetch.  On the server *)
(* path and on the client path no request reaches the RPC node (and, on the *)
(* client path, none reaches the proxy) for a non-empty digest that is not  *)
(* well formed.                                                             *)
C16_MalformedDigestNeverFetched ==
    /\ (api.route = "GET" /\ api.digest # <<>> /\ ~WellFormedDigest(api.digest)) =>
           api.rpcCalls = 0
    /\ (fetcher.pc # "idle" /\ fetcher.digest # <<>> /\ ~WellFormedDigest(fetcher.digest)) =>
           fetcher.proxyCalls = 0 /\ fetcher.rpcCalls = 0

(* The client path alone does reject a malformed digest before any fetch *)
C16_ClientPathRejects ==
    /\ fetcher.pc = "done"
    /\ fetcher.digest = ShortText
    /\ fetcher.proxyCalls = 0
    /\ fetcher.outcome[1].threw
    /\ fetcher.outcome[1].error[1].code = "INVALID_DIGEST"

(* The node could not be reached or its reply could not be read *)
NetworkFailure(kind) == kind \in {"reject", "unreadable"}

(* C17: a network-level failure while contacting the RPC node surfaces as   *)
(* the upstream-RPC failure kind: GET answers with code RPC_ERROR, and the  *)
(* client-side fetchTransaction throws a TransactionError with code         *)
(* RPC_ERROR, whether its own request or the proxy's request to the node    *)
(* failed.                                                                  *)
C17_NetworkFailureIsRpcError ==
    /\ (ServedGet /\ NetworkFailure(api.nodeReply)) =>
           /\ ~api.response[1].success
           /\ api.response[1].code = "RPC_ERROR"
    /\ (/\ fetcher.pc = "done"
        /\ fetcher.proxyCalls = 1
        /\ \/ fetcher.proxyResponse = <<>>
           \/ fetcher.proxyResponse[1].status = 500) =>
           /\ fetcher.outcome[1].threw
           /\ fetcher.outcome[1].error[1].name = "TransactionError"
           /\ fetcher.outcome[1].error[1].code = "RPC_ERROR"

(* On the client path alone a network failure does surface as RPC_ERROR *)
C17_ClientPathRpcError ==
    /\ fetcher.pc = "done"
    /\ fetcher.proxyResponse # <<>>
    /\ fetcher.proxyResponse[1].status = 500
    /\ fetcher.outcome[1].error[1].code = "RPC_ERROR"

----------------------------------------------------------------------------
(* Properties of the hook and the error display *)

ApiErrorCodes == {"NOT_FOUND", "RPC_ERROR", "INVALID_DIGEST", "INTERNAL_ERROR"}

(* The hook read a failure response of the API *)
FailureDelivered ==
    /\ ui.pc = "settled"
    /\ ui.data # <<>>
    /\ ~ui.data[1].success
    /\ ui.data[1].code \in ApiErrorCodes

(* C18: each kind of failure reaches the user as its own message.  When the *)
(* API answers a failed request with code NOT_FOUND, RPC_ERROR,             *)
(* INVALID_DIGEST or INTERNAL_ERROR, the hook's error state carries that    *)
(* code and the error display shows the title of that kind.                 *)
C18_ErrorStateCarriesCode ==
    FailureDelivered =>
        /\ ui.error # <<>>
        /\ ui.error[1].code = ui.data[1].code
        /\ getErrorDisplay(ui.error[1]) = ErrorTitle(ui.data[1].code)

----------------------------------------------------------------------------
(* Properties relating the two classifiers, and of the event analysis *)

(* Incoming and outgoing balance changes, all in one coin type that is not  *)
(* the native coin                                                          *)
OneTokenBothWays(t) ==
    /\ SomePositive(t)
    /\ SomeNegative(t)
    /\ Cardinality(DistinctCoinTypes(t)) = 1
    /\ \A c \in DistinctCoinTypes(t) : ~IsNative(c)

(* C19: the two translators resolve the buy/sell ambiguity identically.     *)
(* For every successful transaction with incoming and outgoing balance      *)
(* changes in exactly one non-native coin type, the server translator and   *)
(* the client translator assign the same transactionType.                   *)
C19_TranslatorsAgreeOnAmbiguity ==
    (Classified /\ Translated /\ StatusOf(tx) = "success" /\ OneTokenBothWays(tx)) =>
        enhanced[1].transactionType = client[1].transactionType

KnownProtocols == {M_deepbook, M_cetus, M_turbo}

ProtocolName(marker) ==
    CASE marker = M_deepbook -> "DeepBook"
      [] marker = M_cetus -> "Cetus"
      [] marker = M_turbo -> "Turbos"

(* The protocols an event's emitting module name matches *)
Matches(event) ==
    {m \in KnownProtocols :
        event.packageId # "" /\ Includes(toLowerCase(event.transactionModule), m)}

(* C20: analyzeEvents reports the protocol matched by the earliest matching *)
(* event in list order; later matching events do not change it.             *)
C20_FirstProtocolWins ==
    Classified =>
        \A evs \in {OrEmpty(tx.events)} :
            \A i \in 1..Len(evs) :
                (Matches(evs[i]) # {} /\ \A j \in 1..(i - 1) : Matches(evs[j]) = {}) =>
                    \E m \in Matches(evs[i]) :
                        analyzeEvents(tx).protocol = ProtocolName(m)

(* What the dictionary lookup by function name alone gives for one call *)
GlossByFunctionName(entry, keys) ==
    IF entry.function \in keys
    THEN /\ entry.description = [source |-> "dictionary", text |-> entry.function]
         /\ entry.plainEnglish = [source |-> "dictionary", text |-> entry.function]
    ELSE /\ entry.description.source # "dictionary"
         /\ entry.plainEnglish.source # "dictionary"

MoveCallsAsSpecified(moveCalls, t, keys) ==
    IF t.kind # "ProgrammableTransaction"
    THEN moveCalls = <<>>
    ELSE \A calls \in {MoveCommands(t)} :
            /\ Len(moveCalls) = Len(calls)
            /\ \A i \in 1..Len(calls) :
                  /\ moveCalls[i].function = OrUnknown(calls[i].MoveFunction[1].function)
                  /\ GlossByFunctionName(moveCalls[i], keys)

(* C21: Move-call extraction gives no entry for a transaction that is not   *)
(* programmable and one entry per call command, in command order, for a     *)
(* programmable one; an entry whose function name is a key of the           *)
(* dictionary carries that key's description and gloss, every other entry   *)
(* the generic fallback, whatever the module name is.                       *)
C21_MoveCallGloss ==
    /\ Classified => MoveCallsAsSpecified(enhanced[1].moveCalls, tx, KnownFunctions)
    /\ Translated => MoveCallsAsSpecified(client[1].moveCalls, tx, ClientKnownFunctions)

(* The server half of C21 holds on its own *)
C21_ServerGloss ==
    Classified => MoveCallsAsSpecified(enhanced[1].moveCalls, tx, KnownFunctions)

(* The sum of the amounts of a balance-change list, entry by entry *)
RECURSIVE NetAmount(_)
NetAmount(bcs) ==
    IF bcs = <<>> THEN 0
    ELSE OrZero(parseInt(Head(bcs).amount)) + NetAmount(Tail(bcs))

(* The sum over the entries that satisfy Keep *)
NetOf(bcs, Keep(_)) == NetAmount(SelectSeq(bcs, Keep))

(* The reference analysis without the count of coin types *)
BalanceAnalysisSums(a, t) ==
    /\ a.hasIncoming <=> SomePositive(t)
    /\ a.hasOutgoing <=> SomeNegative(t)
    /\ DOMAIN a.tokenChanges = {k \in DistinctCoinTypes(t) : ~IsNative(k)}
    /\ \A k \in DOMAIN a.tokenChanges :
          a.tokenChanges[k] = NetOf(OrEmpty(t.balanceChanges), LAMBDA c : c.coinType = k)
    /\ a.suiChange = NetOf(OrEmpty(t.balanceChanges), LAMBDA c : IsNative(c.coinType))
    /\ a.senderBalanceChange =
          NetOf(OrEmpty(t.balanceChanges), LAMBDA c : BalanceOwner(c) = t.sender)

(* C22: analyzeBalanceChanges equals its reference definition: the flags    *)
(* are per entry, the per-coin mapping holds the sums per non-native coin   *)
(* type, uniqueCoinTypes is the number of distinct coin types in the list,  *)
(* senderBalanceChange the sum of the sender's entries, and an empty or     *)
(* absent list gives 0 for every number and FALSE for both flags.           *)
C22_BalanceAnalysisReference ==
    Classified =>
        \A a \in {analyzeBalanceChanges(tx)} :
            /\ BalanceAnalysisSums(a, tx)
            /\ a.uniqueCoinTypes = Cardinality(DistinctCoinTypes(tx))

(* Everything of C22 but the count of coin types holds *)
C22_SumsAndFlags ==
    Classified => BalanceAnalysisSums(analyzeBalanceChanges(tx), tx)

(* The kind and title of every step, in order *)
StepShape(steps) == [i \in 1..Len(steps) |-> <<steps[i].type, steps[i].title>>]

(* The balance changes with a non-zero amount, in list order *)
NonZeroChanges(t) ==
    SelectSeq(OrEmpty(t.balanceChanges), LAMBDA c : OrZero(parseInt(c.amount)) # 0)

(* The order of steps C23 states for a successful programmable transaction *)
StatedStepShape(t) ==
    [i \in 1..Len(t.inputs) |-> <<"input", "Provided Input">>]
    \o [i \in 1..Len(MoveCommands(t)) |-> <<"action", "Called">>]
    \o [i \in 1..Len(NonZeroChanges(t)) |->
           <<"output", IF BalanceOwner(NonZeroChanges(t)[i]) = t.sender
                       THEN "Sent" ELSE "Received">>]
    \o (IF t.gasUsed # <<>> THEN <<<<"action", "Paid Gas Fee">>>> ELSE <<>>)

(* With gas data the gas step occurs once and is the last step *)
GasStepLast(steps) ==
    /\ Len(steps) > 0
    /\ steps[Len(steps)].id = <<"gas">>
    /\ Cardinality({i \in 1..Len(steps) : steps[i].id = <<"gas">>}) = 1

(* C23: for a successful programmable transaction the steps are one per     *)
(* input in input order, one per Move call in command order, one output     *)
(* step per non-zero balance change in list order (Sent for the sender's,   *)
(* Received otherwise) and then the gas step; with gas data the gas step    *)
(* occurs exactly once and last for every successful transaction.           *)
C23_StepOrder ==
    (Translated /\ StatusOf(tx) = "success") =>
        /\ tx.kind = "ProgrammableTransaction" =>
              StepShape(client[1].steps) = StatedStepShape(tx)
        /\ tx.gasUsed # <<>> => GasStepLast(client[1].steps)

(* The gas part of C23 holds on its own *)
C23_GasStepLast ==
    (Translated /\ StatusOf(tx) = "success" /\ tx.gasUsed # <<>>) =>
        GasStepLast(client[1].steps)

RetryDone == retry.pc = "done"

(* withRetry returned the value of its last call of fn, the first that      *)
(* succeeded                                                                *)
ReturnedFirstSuccess(r) ==
    /\ Len(r.calls) > 0
    /\ ~r.calls[Len(r.calls)].threw
    /\ \A i \in 1..(Len(r.calls) - 1) : r.calls[i].threw
    /\ r.outcome[1] = Returned(r.calls[Len(r.calls)].value[1])

(* withRetry threw the error of the last of maxRetries + 1 failed calls *)
ThrewLastError(r) ==
    /\ \A i \in 1..Len(r.calls) : r.calls[i].threw
    /\ Len(r.calls) > 0 =>
          /\ Len(r.calls) = r.maxRetries + 1
          /\ r.outcome[1].error = r.calls[Len(r.calls)].error

(* The k-th wait lasts 2^(k-1) seconds, and a wait lies between two calls *)
WaitsBetweenAttempts(r) ==
    /\ \A k \in 1..Len(r.waits) : r.waits[k] = (2 ^ (k - 1)) * 1000
    /\ r.pc = "call" => Len(r.waits) = r.started - 1
    /\ r.pc = "wait" => Len(r.waits) = r.started - 1 /\ r.started <= r.maxRetries
    /\ (r.pc = "done" /\ r.started > 0) => Len(r.waits) = r.started - 1

RetrySafe ==
    /\ retry.started <= (IF retry.maxRetries < 0 THEN 0 ELSE retry.maxRetries + 1)
    /\ retry.started - Len(retry.calls) = (IF retry.pc = "call" THEN 1 ELSE 0)
    /\ \A i \in 1..(Len(retry.calls) - 1) : retry.calls[i].threw
    /\ WaitsBetweenAttempts(retry)
    /\ RetryDone =>
          IF retry.outcome[1].threw THEN ThrewLastError(retry)
          ELSE ReturnedFirstSuccess(retry)

(* C24: withRetry calls fn at most maxRetries + 1 times, makes no call      *)
(* after the first that succeeds and returns its value, throws the error of *)
(* the last call when all fail, waits 2^attempt seconds between two         *)
(* attempts and not after the last, and ends once every call of fn ends.    *)
C24_WithRetryBounded ==
    /\ []RetrySafe
    /\ (retry.pc # "idle") ~> RetryDone

(* All maxRetries + 1 calls failed after the waits of 1, 2 and 4 seconds *)
C24_Witness ==
    /\ RetryDone
    /\ retry.maxRetries = DefaultMaxRetries
    /\ Len(retry.calls) = DefaultMaxRetries + 1
    /\ retry.waits = <<1000, 2000, 4000>>
    /\ retry.outcome[1].threw
    /\ retry.calls[1].error # retry.calls[Len(retry.calls)].error

StoredHistory == getHistory(store.stored)

(* No two entries with the same digest, at most 50 entries, newest first *)
HistoryWellFormed(history) ==
    /\ \A i, j \in 1..Len(history) : history[i].digest = history[j].digest => i = j
    /\ Len(history) <= HistoryLimit
    /\ \A i \in 1..(Len(history) - 1) : history[i].timestamp > history[i + 1].timestamp

(* The entries of a history without those of one digest, in order *)
Others(history, digest) == SelectSeq(history, LAMBDA h : h.digest # digest)

(* A step in which addToHistory was called: the clock moved *)
Added == store'.now # store.now

(* The new history has the added item first and then the other entries it   *)
(* retained, in their old order                                             *)
AddedFirst(old, new) ==
    /\ Len(new) > 0
    /\ new[1].timestamp = store.now
    /\ \A i \in 2..Len(new) : new[i].digest # new[1].digest
    /\ Tail(new) = Slice(Others(old, new[1].digest), HistoryLimit - 1)

HistoryUnchanged == store'.stored = store.stored

(* A step of clearHistory leaves no history *)
Cleared == (store'.now = store.now /\ store' # store) => getHistory(store'.stored) = <<>>

(* C25 as stated: every call of addToHistory puts its item first *)
C25_HistoryAlwaysUpdated ==
    [][/\ HistoryWellFormed(getHistory(store'.stored))
       /\ Added => AddedFirst(StoredHistory, getHistory(store'.stored))
       /\ Cleared]_vars

(* C25: the stored history never has two entries of one digest nor more     *)
(* than 50 entries and is ordered newest first; a call of addToHistory      *)
(* whose write succeeds puts its item first, drops the older entry of the   *)
(* same digest and keeps the order of the other retained entries, a call    *)
(* whose write fails leaves the history as it was; clearHistory empties it. *)
C25_HistoryWellFormed ==
    [][/\ HistoryWellFormed(getHistory(store'.stored))
       /\ Added => \/ AddedFirst(StoredHistory, getHistory(store'.stored))
                   \/ HistoryUnchanged
       /\ Cleared]_vars

(* A full history after a new digest was added: the oldest entry is gone *)
C25_Witness ==
    /\ Len(StoredHistory) = HistoryLimit
    /\ StoredHistory[1].digest = DigestNo(HistoryLimit + 1)
    /\ StoredHistory[HistoryLimit].digest = DigestNo(2)
    /\ store.added = 1

(* A step in which a call of handleSubmit completed *)
SubmitCompleted == Len(page'.settled) = Len(page.settled) + 1

JustCompleted == page'.settled[Len(page'.settled)]

(* C26: when handleSubmit(D) completes after a successful fetch of D, the   *)
(* first entry of the history has digest D, also for the first lookup of    *)
(* the session and after a transaction of another digest; when it           *)
(* completes after a failed fetch, the history is as it was.                *)
C26_SubmitAddsFetched ==
    [][SubmitCompleted =>
          IF JustCompleted.outcome = "ok"
          THEN /\ getHistory(store'.stored) # <<>>
               /\ getHistory(store'.stored)[1].digest = JustCompleted.digest
          ELSE store'.stored = store.stored]_vars

(* The last call of fetchTransaction has settled, and nothing is in flight *)
AllSettled == page.submitted > 0 /\ page.pending = <<>>

OutcomeOf(id) ==
    (CHOOSE c \in Range(page.settled) : c.id = id).outcome

(* The hook shows what the last call brought *)
ReflectsLastCall ==
    \A b \in {page.last[1]} :
        IF OutcomeOf(b.id) = "ok"
        THEN /\ page.hook.transaction # <<>>
             /\ page.hook.transaction[1].digest = b.digest
             /\ page.hook.error = <<>>
             /\ page.hook.geminiExplanation = <<>>
        ELSE page.hook.error # <<>>

(* C27: once overlapping calls of fetchTransaction have all settled, in     *)
(* whatever order, transaction, geminiExplanation and error are those of    *)
(* the call made last; isLoading is false only when no call is in flight.   *)
C27_LatestRequestWins ==
    /\ AllSettled => ReflectsLastCall
    /\ ~page.hook.isLoading => page.pending = <<>>

(* Calls that do not overlap always leave the last call's outcome *)
C27_SequentialCalls ==
    (AllSettled /\ \A i \in 1..Len(page.settled) : page.settled[i].inFlight = 0) =>
        ReflectsLastCall

SuccessLabels == {"mint", "burn", "swap", "buy", "sell", "transfer", "call"}

(* C28: each of the seven labels mint, burn, swap, buy, sell, transfer and  *)
(* call is returned by detectTransactionType for at least one raw           *)
(* transaction; in particular some transaction is classified sell.          *)
C28_EveryLabelReachable ==
    Classified =>
        \A label \in SuccessLabels :
            \E t \in ClassifyInputs : detectTransactionType(t) = label

(* No transaction is classified sell *)
C28_NeverSell == Classified => TypeOf # "sell"

(* The six other labels are returned for some transaction *)
C28_OtherLabelsReachable ==
    \A label \in SuccessLabels \ {"sell"} :
        \E t \in ClassifyInputs : detectTransactionType(t) = label

(* The addresses of the recipient nodes of a flow graph *)
RecipientNodes(out) ==
    {out.flowNodes[i].address :
        i \in {j \in 1..Len(out.flowNodes) : out.flowNodes[j].type = "recipient"}}

SenderNotRecipient(out, t) ==
    /\ \A i \in 1..Len(out.recipients) : out.recipients[i] # t.sender
    /\ t.sender \notin RecipientNodes(out)

(* C29: the sender is never among the recipients of the translated          *)
(* transaction nor among the recipient nodes of its flow graph, in either   *)
(* translator, also when a transfer command names the sender as recipient.  *)
C29_SenderNeverRecipient ==
    /\ Classified => SenderNotRecipient(enhanced[1], tx)
    /\ Translated => SenderNotRecipient(client[1], tx)

(* A TransferSui command of a Single transaction names the sender *)
SuiNamesSender(t) ==
    /\ t.kind = "Single"
    /\ \E i \in 1..Len(t.transactions) :
          /\ t.transactions[i].TransferSui # <<>>
          /\ t.transactions[i].TransferSui[1].recipient = t.sender

(* A TransferObjects command of a Single transaction, with at least one     *)
(* object, names the sender                                                 *)
ObjectsNameSender(t) ==
    /\ t.kind = "Single"
    /\ \E i \in 1..Len(t.transactions) :
          /\ t.transactions[i].TransferObjects # <<>>
          /\ t.transactions[i].TransferObjects[1].recipient = t.sender
          /\ Len(t.transactions[i].TransferObjects[1].objects) > 0

SenderAmong(out, t) == \E i \in 1..Len(out.recipients) : out.recipients[i] = t.sender

SenderOwnsChange(t) ==
    \E i \in 1..Len(OrEmpty(t.balanceChanges)) :
        OrEmpty(t.balanceChanges)[i].owner.AddressOwner = t.sender

(* C29, amended: a balance change never makes the sender a recipient, and  *)
(* the recipient list of the client translator never holds the sender. The  *)
(* recipient list of the server translator and the recipient nodes of its   *)
(* flow graph hold the sender exactly when a TransferSui command of a       *)
(* Single transaction names it; the recipient nodes of the client's flow    *)
(* graph hold it exactly when such a TransferSui command, or a              *)
(* TransferObjects command with at least one object, names it.              *)
C29_SenderOnlyByCommand ==
    /\ Classified =>
          /\ SenderAmong(enhanced[1], tx) <=> SuiNamesSender(tx)
          /\ (tx.sender \in RecipientNodes(enhanced[1])) <=> SuiNamesSender(tx)
    /\ Translated =>
          /\ ~SenderAmong(client[1], tx)
          /\ (tx.sender \in RecipientNodes(client[1]))
                <=> (SuiNamesSender(tx) \/ ObjectsNameSender(tx))

(* Both translators have run on a transaction whose sender owns a balance   *)
(* change and is named by a TransferObjects command only: the client's flow *)
(* graph has a recipient node of the sender, the server's has none          *)
C29_Witness ==
    /\ Classified /\ Translated
    /\ SenderOwnsChange(tx)
    /\ ObjectsNameSender(tx) /\ ~SuiNamesSender(tx)
    /\ tx.sender \in RecipientNodes(client[1])
    /\ tx.sender \notin RecipientNodes(enhanced[1])

(* The server translator has listed the sender as recipient *)
C29_SenderListed == Classified /\ SuiNamesSender(tx) /\ SenderAmong(enhanced[1], tx)

(* The entry of a balance-change list owned by an address, in the native    *)
(* coin, with an amount of the given sign                                   *)
NativeEntry(change, owner, sign) ==
    /\ change.owner.AddressOwner = owner
    /\ IsNative(change.coinType)
    /\ OrZero(parseInt(change.amount)) * sign > 0

(* A successful Single transaction of one TransferSui command to another    *)
(* address, with no events and no object changes, whose balance changes are *)
(* a negative native entry of the sender and a positive native entry of the *)
(* recipient                                                                *)
OrdinaryNativeTransfer(t) ==
    /\ StatusOf(t) = "success"
    /\ t.kind = "Single"
    /\ Len(t.transactions) = 1
    /\ t.transactions[1].TransferSui # <<>>
    /\ t.transactions[1].TransferSui[1].recipient # t.sender
    /\ OrEmpty(t.events) = <<>>
    /\ OrEmpty(t.objectChanges) = <<>>
    /\ LET bcs == OrEmpty(t.balanceChanges)
           to == t.transactions[1].TransferSui[1].recipient
       IN  /\ Len(bcs) = 2
           /\ \E i, j \in 1..2 :
                /\ i # j
                /\ NativeEntry(bcs[i], t.sender, 0 - 1)
                /\ NativeEntry(bcs[j], to, 1)

WithoutBalanceChanges(t) == [t EXCEPT !.balanceChanges = <<<<>>>>]

(* C30: an ordinary native-coin transfer, with the sender's negative and    *)
(* the recipient's positive balance change, is classified transfer, as the  *)
(* same transaction with an empty balance-change list is.                   *)
C30_NativeTransferIsTransfer ==
    Classified /\ OrdinaryNativeTransfer(tx) =>
        /\ TypeOf = "transfer"
        /\ TypeOf = detectTransactionType(WithoutBalanceChanges(tx))

(* The same transaction with an empty balance-change list is a transfer *)
C30_EmptyListIsTransfer ==
    Classified /\ OrdinaryNativeTransfer(tx) =>
        detectTransactionType(WithoutBalanceChanges(tx)) = "transfer"

(* The ordinary native-coin transfer is classified buy *)
C30_ClassifiedBuy == Classified /\ OrdinaryNativeTransfer(tx) => TypeOf = "buy"

====
